---- MODULE Spec2Model ----
(***************************************************************************)
(* A model of scmdata's ScmRun container (src/src/scmdata/run.py): the     *)
(* list of TimeSeries objects a container holds, its time index, filter,  *)
(* set_meta, run["time"] = ..., interpolate and df_append; of the netCDF    *)
(* codec (netcdf.py) and of the database of files (database.py).           *)
(*                                                                         *)
(* Python objects are modelled with their identity: a container refers to *)
(* a list object, a list object holds references to TimeSeries objects,   *)
(* and two containers may refer to the same list or the same TimeSeries.  *)
(*                                                                         *)
(* Text (metadata values, patterns) is a sequence of one-character        *)
(* strings; a floating point value is an exact fraction <<num, den>>.     *)
(***************************************************************************)
EXTENDS Integers, Sequences, FiniteSets, TLC

VARIABLES runs, lists, tss, last, disk

vars == <<runs, lists, tss, last, disk>>

(***************************************************************************)
(* Bounds of the model.                                                    *)
(***************************************************************************)
MaxRuns == 3
MaxLists == 4
MaxTs == 6
MaxCalls == 4

(***************************************************************************)
(* Values: fractions in lowest terms, and NaN.                             *)
(***************************************************************************)
NaN == <<0, 0>>

Abs(n) == IF n < 0 THEN 0 - n ELSE n

RECURSIVE GCD(_, _)
GCD(a, b) == IF b = 0 THEN a ELSE GCD(b, a % b)

Norm(n, d) ==
    LET g == GCD(Abs(n), d)
    IN  IF n = 0 THEN <<0, 1>>
        ELSE IF n < 0 THEN <<0 - (Abs(n) \div g), d \div g>>
        ELSE <<n \div g, d \div g>>

Rat(n) == <<n, 1>>

IsNaN(v) == v = NaN

RatAdd(a, b) == Norm(a[1] * b[2] + b[1] * a[2], a[2] * b[2])

RatSub(a, b) == Norm(a[1] * b[2] - b[1] * a[2], a[2] * b[2])

RatScale(a, p, q) == Norm(a[1] * p, a[2] * q)

RECURSIVE RatSum(_)
RatSum(vs) == IF vs = <<>> THEN <<0, 1>> ELSE RatAdd(Head(vs), RatSum(Tail(vs)))

(* numpy's nanmean: the mean of the values that are not NaN, NaN if none is *)
NanMean(vs) ==
    LET ok == SelectSeq(vs, LAMBDA v : ~IsNaN(v))
    IN  IF ok = <<>> THEN NaN ELSE RatScale(RatSum(ok), 1, Len(ok))

(***************************************************************************)
(* Sequences.                                                              *)
(***************************************************************************)
Range(s) == {s[i] : i \in 1..Len(s)}

SetMin(S) == CHOOSE x \in S : \A y \in S : x <= y

SetMax(S) == CHOOSE x \in S : \A y \in S : x >= y

RECURSIVE Descending(_)
(* the union put in the wrong order *)
Descending(S) ==
    IF S = {} THEN <<>> ELSE <<SetMax(S)>> \o Descending(S \ {SetMax(S)})

RECURSIVE SortedSeq(_)
SortedSeq(S) ==
    IF S = {} THEN <<>> ELSE <<SetMin(S)>> \o SortedSeq(S \ {SetMin(S)})

RECURSIVE Pick(_, _)
(* the elements of s at the positions where mask is TRUE, in order *)
Pick(s, mask) ==
    IF s = <<>> \/ mask = <<>> THEN <<>>
    ELSE (IF Head(mask) THEN <<Head(s)>> ELSE <<>>) \o Pick(Tail(s), Tail(mask))

Count(mask, b) == Cardinality({i \in 1..Len(mask) : mask[i] = b})

(* the mask left as it is where the code negates it *)
NotInverted(mask) == mask

Invert(mask) == [i \in 1..Len(mask) |-> ~mask[i]]

(***************************************************************************)
(* Text.                                                                   *)
(***************************************************************************)
HIERARCHY_SEPARATOR == "|"

RECURSIVE Glob(_, _)
(* pattern p, "*" standing for any run of characters, matches all of s *)
Glob(p, s) ==
    IF p = <<>> THEN s = <<>>
    ELSE IF Head(p) = "*"
         THEN Glob(Tail(p), s) \/ (s # <<>> /\ Glob(p, Tail(s)))
         ELSE s # <<>> /\ Head(s) = Head(p) /\ Glob(Tail(p), Tail(s))

RECURSIVE RemoveAll(_, _)
(* Python's s.replace(sub, "") *)
RemoveAll(s, sub) ==
    IF sub = <<>> \/ Len(s) < Len(sub) THEN s
    ELSE IF SubSeq(s, 1, Len(sub)) = sub
         THEN RemoveAll(SubSeq(s, Len(sub) + 1, Len(s)), sub)
         ELSE <<Head(s)>> \o RemoveAll(Tail(s), sub)

CountSep(s, sep) == Cardinality({i \in 1..Len(s) : s[i] = sep})

RECURSIVE Replace(_, _, _)
(* Python's s.replace(old, new): the occurrences of old found from the     *)
(* left, none overlapping another                                          *)
Replace(s, old, new) ==
    IF Len(s) < Len(old) THEN s
    ELSE IF SubSeq(s, 1, Len(old)) = old
         THEN new \o Replace(SubSeq(s, Len(old) + 1, Len(s)), old, new)
         ELSE <<Head(s)>> \o Replace(Tail(s), old, new)

LowerLetters == <<"a", "b", "c", "f", "g", "m", "n", "o", "p", "r", "u", "w", "x", "y", "z">>

UpperLetters == <<"A", "B", "C", "F", "G", "M", "N", "O", "P", "R", "U", "W", "X", "Y", "Z">>

IsCased(ch) == \E i \in 1..Len(LowerLetters) : ch \in {LowerLetters[i], UpperLetters[i]}

CharLower(ch) ==
    IF \E i \in 1..Len(UpperLetters) : UpperLetters[i] = ch
    THEN LowerLetters[CHOOSE i \in 1..Len(UpperLetters) : UpperLetters[i] = ch]
    ELSE ch

CharUpper(ch) ==
    IF \E i \in 1..Len(LowerLetters) : LowerLetters[i] = ch
    THEN UpperLetters[CHOOSE i \in 1..Len(LowerLetters) : LowerLetters[i] = ch]
    ELSE ch

(* str.lower() *)
Lower(s) == [i \in 1..Len(s) |-> CharLower(s[i])]

(* str.title(): a letter that follows a letter in lower case, every other  *)
(* letter in upper case                                                    *)
Title(s) ==
    [i \in 1..Len(s) |->
        IF i > 1 /\ IsCased(s[i - 1]) THEN CharLower(s[i]) ELSE CharUpper(s[i])]

(* str.isalnum() of one character *)
IsAlnum(ch) == IsCased(ch) \/ ch \in {"0", "1", "2", "3", "4", "5", "6", "7", "8", "9"}

(***************************************************************************)
(* TimeSeries (scmdata/timeseries.py): a named vector of values over its   *)
(* own time coordinate, with a metadata mapping.                           *)
(***************************************************************************)
REQUIRED_COLS == {"model", "scenario", "region", "variable", "unit"}

MkTs(name, meta, time, vals) ==
    [name |-> name, meta |-> meta, time |-> time, vals |-> vals]

(* len(ts) *)
TsLen(ts) == Len(ts.vals)

(* ts[mask]: a new TimeSeries holding the selected points *)
TsGetItem(ts, mask) ==
    MkTs(ts.name, ts.meta, Pick(ts.time, mask), Pick(ts.vals, mask))

(* ts.reindex(new_t): the value the series has at each label of new_t, NaN *)
(* where the series has no such label                                      *)
TsReindex(ts, new_t) ==
    MkTs(ts.name, ts.meta, new_t,
         [j \in 1..Len(new_t) |->
            IF \E i \in 1..Len(ts.time) : ts.time[i] = new_t[j]
            THEN ts.vals[CHOOSE i \in 1..Len(ts.time) : ts.time[i] = new_t[j]]
            ELSE NaN])

(* reindex needs the labels of the series to be unique *)
TsReindexFails(ts) ==
    \E i, j \in 1..Len(ts.time) : i # j /\ ts.time[i] = ts.time[j]

(* the value at target time t of the piecewise linear function through the *)
(* known points, extended outside them as extrapolation_type says          *)
InterpAt(ts, t, extrapolation_type) ==
    LET known == {i \in 1..Len(ts.time) : ~IsNaN(ts.vals[i])}
        at(i) == ts.vals[i]
        seg(i, j) ==
            RatAdd(at(i), RatScale(RatSub(at(j), at(i)),
                                   t - ts.time[i], ts.time[j] - ts.time[i]))
        below == {i \in known : ts.time[i] < t}
        above == {i \in known : ts.time[i] > t}
        hi(S) == CHOOSE i \in S : \A j \in S : ts.time[j] <= ts.time[i]
        lo(S) == CHOOSE i \in S : \A j \in S : ts.time[j] >= ts.time[i]
    IN  IF \E i \in known : ts.time[i] = t
        THEN at(CHOOSE i \in known : ts.time[i] = t)
        ELSE IF below # {} /\ above # {} THEN seg(hi(below), lo(above))
        ELSE IF known = {} \/ extrapolation_type = "none" THEN NaN
        ELSE IF below # {}
             THEN LET b == hi(below)
                      rest == {i \in below : ts.time[i] < ts.time[b]}
                  IN  IF extrapolation_type = "constant" \/ rest = {}
                      THEN at(b) ELSE seg(hi(rest), b)
             ELSE LET a == lo(above)
                      rest == {i \in above : ts.time[i] > ts.time[a]}
                  IN  IF extrapolation_type = "constant" \/ rest = {}
                      THEN at(a) ELSE seg(a, lo(rest))

(* ts.interpolate(target_times, ...) *)
TsInterpolate(ts, target_times, extrapolation_type) ==
    MkTs(ts.name, ts.meta, target_times,
         [j \in 1..Len(target_times) |->
            InterpAt(ts, target_times[j], extrapolation_type)])

(***************************************************************************)
(* Metadata of a list of series (ScmRun.meta_attributes, _meta_column).   *)
(***************************************************************************)
NaNMeta == <<"nan">>

MetaAttributes(series) ==
    UNION {DOMAIN series[i].meta : i \in 1..Len(series)}

(* an empty text where the series has no such key *)
MetaColumnBlank(series, col) ==
    [i \in 1..Len(series) |->
        IF col \in DOMAIN series[i].meta THEN series[i].meta[col] ELSE <<>>]

MetaColumn(series, col) ==
    [i \in 1..Len(series) |->
        IF col \in DOMAIN series[i].meta THEN series[i].meta[col] ELSE NaNMeta]

(* one row of the metadata table: a value or NaN for every column *)
MetaRow(series, i) ==
    [col \in MetaAttributes(series) |-> MetaColumn(series, col)[i]]

(***************************************************************************)
(* filters.py: pattern_match and find_depth.                               *)
(***************************************************************************)
NoLevel == [given |-> FALSE, str |-> FALSE, n |-> 0, suf |-> ""]

IntLevel(n) == [given |-> TRUE, str |-> FALSE, n |-> n, suf |-> ""]

StrLevel(n, suf) == [given |-> TRUE, str |-> TRUE, n |-> n, suf |-> suf]

(* find_depth raises ValueError("Unknown level type") *)
LevelError(level) == level.given /\ level.str /\ level.suf \notin {"-", "+"}

DepthTest(level, x) ==
    IF ~level.str THEN level.n = x
    ELSE IF level.suf = "-" THEN level.n >= x
    ELSE level.n <= x

StripStars(s) == SelectSeq(s, LAMBDA ch : ch # "*")

FindDepth(val, s, level, sep) ==
    DepthTest(level, CountSep(RemoveAll(val, StripStars(s)), sep))

PatternMatch(col, values, level, sep) ==
    LET fixed == [i \in 1..Len(col) |-> IF col[i] = NaNMeta THEN <<>> ELSE col[i]]
    IN  [err  |-> LevelError(level),
         mask |-> [i \in 1..Len(col) |->
                     \E s \in values :
                        /\ Glob(s, fixed[i])
                        /\ (level.given /\ ~LevelError(level))
                              => FindDepth(fixed[i], s, level, sep)]]

(* years_match *)
YearsMatch(years, values) == [i \in 1..Len(years) |-> years[i] \in values]

(***************************************************************************)
(* ScmRun._apply_filters.  A call's keyword arguments are                  *)
(*   meta:  metadata column -> the set of patterns given for it,           *)
(*   level: the level argument, year: the years given.                     *)
(***************************************************************************)
NoFilter ==
    [meta |-> <<>>, level |-> NoLevel, year |-> [given |-> FALSE, vals |-> {}]]

AllTrue(n) == [i \in 1..n |-> TRUE]

And(m1, m2) == [i \in 1..Len(m1) |-> m1[i] /\ m2[i]]

(* _apply_filters combining the keys with | where the code uses &= *)
ApplyFiltersAnyKey(series, times, sep, f) ==
    LET attrs == MetaAttributes(series)
        cols == DOMAIN f.meta
        unsupported == {c \in cols : c # "variable" /\ c \notin attrs}
        one(c) == IF c = "variable"
                  THEN PatternMatch(MetaColumn(series, c), f.meta[c], f.level, sep)
                  ELSE PatternMatch(MetaColumn(series, c), f.meta[c], NoLevel, sep)
        lvl == PatternMatch(MetaColumn(series, "variable"), {<<"*">>}, f.level, sep)
        levelAlone == f.level.given /\ "variable" \notin cols
        (* np.array([True] * 0) is a float64 array: &= on it raises TypeError *)
        float_meta == Len(series) = 0 /\ (cols \ unsupported # {} \/ levelAlone)
        float_ts == Len(times) = 0 /\ f.year.given
    IN  [err |-> \/ unsupported # {}
                 \/ \E c \in cols \ unsupported : one(c).err
                 \/ levelAlone /\ lvl.err
                 \/ float_meta
                 \/ float_ts,
         keep_ts |-> IF f.year.given THEN YearsMatch(times, f.year.vals)
                     ELSE AllTrue(Len(times)),
         keep_meta |-> [i \in 1..Len(series) |->
                          /\ \E c \in cols \ unsupported : one(c).mask[i]
                          /\ levelAlone => lvl.mask[i]]]

ApplyFilters(series, times, sep, f) ==
    LET attrs == MetaAttributes(series)
        cols == DOMAIN f.meta
        unsupported == {c \in cols : c # "variable" /\ c \notin attrs}
        one(c) == IF c = "variable"
                  THEN PatternMatch(MetaColumn(series, c), f.meta[c], f.level, sep)
                  ELSE PatternMatch(MetaColumn(series, c), f.meta[c], NoLevel, sep)
        lvl == PatternMatch(MetaColumn(series, "variable"), {<<"*">>}, f.level, sep)
        levelAlone == f.level.given /\ "variable" \notin cols
        (* np.array([True] * 0) is a float64 array: &= on it raises TypeError *)
        float_meta == Len(series) = 0 /\ (cols \ unsupported # {} \/ levelAlone)
        float_ts == Len(times) = 0 /\ f.year.given
    IN  [err |-> \/ unsupported # {}
                 \/ \E c \in cols \ unsupported : one(c).err
                 \/ levelAlone /\ lvl.err
                 \/ float_meta
                 \/ float_ts,
         keep_ts |-> IF f.year.given THEN YearsMatch(times, f.year.vals)
                     ELSE AllTrue(Len(times)),
         keep_meta |-> [i \in 1..Len(series) |->
                          /\ \A c \in cols \ unsupported : one(c).mask[i]
                          /\ levelAlone => lvl.mask[i]]]

(***************************************************************************)
(* The heap.  runs[c] is container c: the list object it refers to (_ts), *)
(* its time index (_time_points) and its hierarchy separator; lists[l] is *)
(* list object l, a sequence of references into tss; tss[t] is TimeSeries *)
(* object t.  last describes the call made by the last step.  disk maps   *)
(* the path of every file there is to what the file holds.                 *)
(*                                                                         *)
(* A call is an operator from the current heap to the heap after it and   *)
(* the description of the call; Do makes it a step, dropping the objects  *)
(* no container reaches any more.                                          *)
(***************************************************************************)
MkRun(list, time, sep) == [list |-> list, time |-> time, sep |-> sep]

(* no file at all *)
NoDisk == <<>>

(* TimePoints(values) (scmdata/time.py): the time points it is given, in   *)
(* the order given                                                         *)
TimePoints(values) == values

RunIds == 1..Len(runs)

ListOf(c) == lists[runs[c].list]

(* the series a container holds, as values *)
SeriesOf(c) == [i \in 1..Len(ListOf(c)) |-> tss[ListOf(c)[i]]]

NoCall ==
    [op |-> "init", self |-> 0, other |-> 0, res |-> 0, raised |-> FALSE,
     warnings |-> 0, inplace |-> FALSE, keep |-> TRUE, filt |-> NoFilter,
     name |-> "", policy |-> "", vec |-> <<>>, warning |-> "", returned |-> 0, n |-> 0,
     failed |-> FALSE]

Post(r, l, t, call) == [runs |-> r, lists |-> l, tss |-> t, last |-> call]

Unchanged(call) == Post(runs, lists, tss, call)

(* the position of x in the set S of numbers, counted from 1 *)
RankIn(S, x) == Cardinality({y \in S : y <= x})

Nth(S, k) == CHOOSE x \in S : RankIn(S, x) = k

Collect(p) ==
    LET liveL == {p.runs[c].list : c \in 1..Len(p.runs)}
        liveT == UNION {Range(p.lists[l]) : l \in liveL}
    IN  Post([c \in 1..Len(p.runs) |->
                 [p.runs[c] EXCEPT !.list = RankIn(liveL, p.runs[c].list)]],
             [k \in 1..Cardinality(liveL) |->
                 [i \in 1..Len(p.lists[Nth(liveL, k)]) |->
                     RankIn(liveT, p.lists[Nth(liveL, k)][i])]],
             [k \in 1..Cardinality(liveT) |-> p.tss[Nth(liveT, k)]],
             p.last)

(* one call, the max-th at most: n counts the calls made, failed tells     *)
(* whether one of them raised                                              *)
StepWithin(p, max, max_runs, max_lists, max_ts) ==
    LET q == Collect(p)
    IN  /\ last.n < max
        /\ Len(q.runs) <= max_runs
        /\ Len(q.lists) <= max_lists
        /\ Len(q.tss) <= max_ts
        /\ runs' = q.runs
        /\ lists' = q.lists
        /\ tss' = q.tss
        /\ disk' = IF "disk" \in DOMAIN p THEN p.disk ELSE disk
        /\ last' = [q.last EXCEPT !.n = last.n + 1,
                                  !.failed = last.failed \/ q.last.raised]

Step(p, max) == StepWithin(p, max, MaxRuns, MaxLists, MaxTs)

Do(p) == Step(p, MaxCalls)

(***************************************************************************)
(* _from_ts and ScmRun.__init__ / _init_timeseries: a container from a    *)
(* value matrix (one row per series here), a time index and the columns.  *)
(***************************************************************************)
FromTs(data, index, columns) ==
    LET num_ts == Len(data)
        bad == {c \in DOMAIN columns :
                   Len(columns[c]) # num_ts /\ Len(columns[c]) # 1}
        col(c, i) == IF Len(columns[c]) = num_ts
                     THEN columns[c][i] ELSE columns[c][1]
    IN  [err |-> ~(REQUIRED_COLS \subseteq DOMAIN columns) \/ bad # {},
         series |-> [i \in 1..num_ts |->
                        MkTs(i - 1, [c \in DOMAIN columns |-> col(c, i)],
                             index, data[i])]]

Construct(data, index, columns) ==
    LET r == FromTs(data, index, columns)
        n == Len(r.series)
        call == [NoCall EXCEPT !.op = "construct"]
    IN  IF r.err
        THEN Unchanged([call EXCEPT !.raised = TRUE])
        ELSE Post(Append(runs, MkRun(Len(lists) + 1, index, HIERARCHY_SEPARATOR)),
                  Append(lists, [i \in 1..n |-> Len(tss) + i]),
                  tss \o r.series,
                  [call EXCEPT !.res = Len(runs) + 1])

(* ScmRun(data) with data an ScmRun: the new container refers to the same *)
(* list object, with a time index of its own                               *)
FromRun(c) ==
    Post(Append(runs, MkRun(runs[c].list, runs[c].time, HIERARCHY_SEPARATOR)),
         lists, tss,
         [NoCall EXCEPT !.op = "from_run", !.self = c, !.res = Len(runs) + 1])

(***************************************************************************)
(* ScmRun.filter                                                           *)
(***************************************************************************)
(* filter, after the predicates were evaluated and the call accepted:      *)
(* the reduction of the series list and of the time axis                   *)
FilterReduce(c, keep, inplace, af, call) ==
    LET self == runs[c]
        reduce_times == Count(af.keep_ts, FALSE) > 0
        keep_times == IF keep THEN af.keep_ts ELSE Invert(af.keep_ts)
        keep_cols == IF keep THEN af.keep_meta ELSE Invert(af.keep_meta)
        reduce_cols == \/ Count(af.keep_meta, FALSE) > 0
                       \/ ~keep /\ ~reduce_times
        ids == IF reduce_cols THEN Pick(ListOf(c), keep_cols) ELSE ListOf(c)
        (* ts[_keep_times] with a mask of another length: IndexError *)
        index_error == /\ reduce_times
                       /\ \E i \in 1..Len(ids) :
                             TsLen(tss[ids[i]]) # Len(keep_times)
        new_time == IF reduce_times THEN Pick(self.time, keep_times)
                    ELSE self.time
        sliced == [i \in 1..Len(ids) |->
                     [TsGetItem(tss[ids[i]], keep_times)
                         EXCEPT !.time = new_time]]
        new_ids == IF reduce_times THEN [i \in 1..Len(ids) |-> Len(tss) + i]
                   ELSE ids
        new_list == reduce_cols \/ reduce_times
        list == IF new_list THEN Len(lists) + 1 ELSE self.list
        ret == MkRun(list, new_time, self.sep)
    IN  IF index_error
        THEN IF inplace /\ reduce_cols
             THEN Post([runs EXCEPT ![c].list = Len(lists) + 1],
                       Append(lists, ids), tss, [call EXCEPT !.raised = TRUE])
             ELSE Unchanged([call EXCEPT !.raised = TRUE])
        ELSE Post(IF inplace THEN [runs EXCEPT ![c] = ret] ELSE Append(runs, ret),
                  IF new_list THEN Append(lists, new_ids) ELSE lists,
                  IF reduce_times THEN tss \o sliced ELSE tss,
                  [call EXCEPT !.res = IF inplace THEN c ELSE Len(runs) + 1,
                               !.returned = IF inplace THEN 0 ELSE Len(runs) + 1])

(* filter that reduces in place before it looks for the ambiguity *)
FilterReduceFirst(c, keep, inplace, f) ==
    LET self == runs[c]
        af == ApplyFilters(SeriesOf(c), self.time, self.sep, f)
        call == [NoCall EXCEPT !.op = "filter", !.self = c, !.keep = keep,
                               !.inplace = inplace, !.filt = f]
        float_mask == Len(ListOf(c)) = 0 \/ Len(self.time) = 0
    IN  IF af.err \/ float_mask
        THEN Unchanged([call EXCEPT !.raised = TRUE])
        ELSE FilterReduce(c, keep, inplace, af, call)

(* filter counting levels with the default separator, not the container's *)
FilterDefaultSeparator(c, keep, inplace, f) ==
    LET self == runs[c]
        af == ApplyFilters(SeriesOf(c), self.time, HIERARCHY_SEPARATOR, f)
        call == [NoCall EXCEPT !.op = "filter", !.self = c, !.keep = keep,
                               !.inplace = inplace, !.filt = f]
        ambiguous == /\ ~keep
                     /\ Count(af.keep_meta, FALSE) > 0
                     /\ Count(af.keep_ts, FALSE) > 0
        (* ~ on the float64 array of an empty mask raises TypeError *)
        float_mask == Len(ListOf(c)) = 0 \/ Len(self.time) = 0
    IN  IF af.err \/ ambiguous \/ float_mask
        THEN Unchanged([call EXCEPT !.raised = TRUE])
        ELSE FilterReduce(c, keep, inplace, af, call)

Filter(c, keep, inplace, f) ==
    LET self == runs[c]
        af == ApplyFilters(SeriesOf(c), self.time, self.sep, f)
        call == [NoCall EXCEPT !.op = "filter", !.self = c, !.keep = keep,
                               !.inplace = inplace, !.filt = f]
        ambiguous == /\ ~keep
                     /\ Count(af.keep_meta, FALSE) > 0
                     /\ Count(af.keep_ts, FALSE) > 0
        (* ~ on the float64 array of an empty mask raises TypeError *)
        float_mask == Len(ListOf(c)) = 0 \/ Len(self.time) = 0
    IN  IF af.err \/ ambiguous \/ float_mask
        THEN Unchanged([call EXCEPT !.raised = TRUE])
        ELSE FilterReduce(c, keep, inplace, af, call)

(***************************************************************************)
(* ScmRun.copy, ScmRun.__setitem__ for "time", ScmRun.set_meta,            *)
(* ScmRun.interpolate                                                      *)
(***************************************************************************)
Copy(c) ==
    LET ids == ListOf(c)
    IN  Post(Append(runs, [runs[c] EXCEPT !.list = Len(lists) + 1]),
             Append(lists, [i \in 1..Len(ids) |-> Len(tss) + i]),
             tss \o [i \in 1..Len(ids) |-> tss[ids[i]]],
             [NoCall EXCEPT !.op = "copy", !.self = c, !.res = Len(runs) + 1])

SetTime(c, value) ==
    LET ids == ListOf(c)
        wrong(i) == Len(value) # TsLen(tss[ids[i]])
        (* the first series of the wrong length, Len(ids) + 1 if none *)
        stop == IF \E i \in 1..Len(ids) : wrong(i)
                THEN CHOOSE i \in 1..Len(ids) :
                        wrong(i) /\ \A j \in 1..(i - 1) : ~wrong(j)
                ELSE Len(ids) + 1
        done == {ids[i] : i \in 1..(stop - 1)}
    IN  Post([runs EXCEPT ![c].time = TimePoints(value)],
             lists,
             [t \in 1..Len(tss) |->
                 IF t \in done THEN [tss[t] EXCEPT !.time = TimePoints(value)]
                 ELSE tss[t]],
             [NoCall EXCEPT !.op = "set_time", !.self = c, !.vec = value,
                            !.raised = stop <= Len(ids)])

Assign(meta, name, value) ==
    [k \in DOMAIN meta \cup {name} |-> IF k = name THEN value ELSE meta[k]]

SetMeta(c, meta, name) ==
    LET ids == ListOf(c)
        call == [NoCall EXCEPT !.op = "set_meta", !.self = c, !.name = name,
                               !.vec = meta]
        lastAt(t) == CHOOSE i \in 1..Len(ids) :
                        ids[i] = t /\ \A j \in (i + 1)..Len(ids) : ids[j] # t
    IN  IF Len(meta) = 1
        THEN Post(runs, lists,
                  [t \in 1..Len(tss) |->
                      IF t \in Range(ids)
                      THEN [tss[t] EXCEPT !.meta = Assign(@, name, meta[1])]
                      ELSE tss[t]],
                  call)
        ELSE IF Len(meta) = Len(ids)
        THEN Post(runs, lists,
                  [t \in 1..Len(tss) |->
                      IF t \in Range(ids)
                      THEN [tss[t] EXCEPT !.meta = Assign(@, name, meta[lastAt(t)])]
                      ELSE tss[t]],
                  call)
        ELSE Unchanged([call EXCEPT !.raised = TRUE])

Interpolate(c, target_times, extrapolation_type) ==
    LET ids == ListOf(c)
    IN  Post(Append(runs, MkRun(Len(lists) + 1, TimePoints(target_times),
                                runs[c].sep)),
             Append(lists, [i \in 1..Len(ids) |-> Len(tss) + i]),
             tss \o [i \in 1..Len(ids) |->
                       TsInterpolate(tss[ids[i]], target_times, extrapolation_type)],
             [NoCall EXCEPT !.op = "interpolate", !.self = c,
                            !.vec = target_times, !.res = Len(runs) + 1])

(***************************************************************************)
(* The order pandas sorts group keys in: rows of the metadata table       *)
(* compared column by column, text compared character by character.       *)
(***************************************************************************)
Alphabet ==
    <<" ", "*", "-", ".", "/", "2", "A", "B", "C", "G", "O", "P", "_",
      "a", "b", "c", "f", "g", "m", "n", "o", "p", "r", "u", "w", "x", "y", "z", "|">>

CharRank(ch) == CHOOSE i \in 1..Len(Alphabet) : Alphabet[i] = ch

RECURSIVE TextLess(_, _)
TextLess(s, t) ==
    IF t = <<>> THEN FALSE
    ELSE IF s = <<>> THEN TRUE
    ELSE IF Head(s) = Head(t) THEN TextLess(Tail(s), Tail(t))
    ELSE CharRank(Head(s)) < CharRank(Head(t))

ValueLess(v, w) ==
    IF w = NaNMeta THEN FALSE
    ELSE IF v = NaNMeta THEN TRUE
    ELSE TextLess(v, w)

Reverse(seq) == [i \in 1..Len(seq) |-> seq[Len(seq) + 1 - i]]

RECURSIVE PathLess(_, _)
PathLess(p, q) ==
    IF p = <<>> THEN q # <<>>
    ELSE IF q = <<>> THEN FALSE
    ELSE IF Head(p) = Head(q) THEN PathLess(Tail(p), Tail(q))
    ELSE TextLess(Head(p), Head(q))

RECURSIVE SortPaths(_)
SortPaths(S) ==
    IF S = {} THEN <<>>
    ELSE LET m == CHOOSE x \in S : \A y \in S \ {x} : PathLess(x, y)
         IN  <<m>> \o SortPaths(S \ {m})

(* sorted(values) *)
RECURSIVE SortTexts(_)
SortTexts(S) ==
    IF S = {} THEN <<>>
    ELSE LET m == CHOOSE x \in S : \A y \in S \ {x} : ValueLess(x, y)
         IN  <<m>> \o SortTexts(S \ {m})

KeyOrder == <<"ecs", "junk", "model", "region", "scenario", "unit", "variable">>

RowLess(r1, r2) ==
    \E i \in 1..Len(KeyOrder) :
        /\ KeyOrder[i] \in DOMAIN r1
        /\ ValueLess(r1[KeyOrder[i]], r2[KeyOrder[i]])
        /\ \A j \in 1..(i - 1) :
              KeyOrder[j] \in DOMAIN r1 => r1[KeyOrder[j]] = r2[KeyOrder[j]]

RECURSIVE SortRows(_)
SortRows(R) ==
    IF R = {} THEN <<>>
    ELSE LET m == CHOOSE r \in R : \A q \in R \ {r} : RowLess(r, q)
         IN  <<m>> \o SortRows(R \ {m})

(***************************************************************************)
(* RunGroupBy(...).mean(axis=0): one series per distinct metadata row, the *)
(* mean at each time point of the group's values that are not NaN.        *)
(***************************************************************************)
GroupMean(series, time) ==
    LET n == Len(series)
        idx == [i \in 1..n |-> i]
        keys == SortRows({MetaRow(series, i) : i \in 1..n})
        members(k) == SelectSeq(idx, LAMBDA i : MetaRow(series, i) = keys[k])
    IN  [k \in 1..Len(keys) |->
            MkTs(0, series[members(k)[1]].meta, time,
                 [j \in 1..Len(time) |->
                     NanMean([m \in 1..Len(members(k)) |->
                                 series[members(k)[m]].vals[j]])])]

(* duplicates looked for among neighbouring rows only *)
MetaDuplicatedAdjacent(series) ==
    \E i \in 1..(Len(series) - 1) : MetaRow(series, i) = MetaRow(series, i + 1)

(* ret.meta.duplicated().any() *)
MetaDuplicated(series) ==
    \E i, j \in 1..Len(series) : i # j /\ MetaRow(series, i) = MetaRow(series, j)

(* a group counted only when it has two values at every time point *)
ContributingDuplicatesEverywhere(series, time) ==
    \E i \in 1..Len(series) :
       /\ \A col \in MetaAttributes(series) : MetaRow(series, i)[col] # NaNMeta
       /\ \A t \in 1..Len(time) :
             Cardinality({k \in 1..Len(series) :
                             /\ MetaRow(series, k) = MetaRow(series, i)
                             /\ ~IsNaN(series[k].vals[t])}) > 1

(* every row counted, also those with NaN among their metadata *)
ContributingDuplicatesAnyRow(series, time) ==
    \E i \in 1..Len(series) : \E t \in 1..Len(time) :
       Cardinality({k \in 1..Len(series) :
                       /\ MetaRow(series, k) = MetaRow(series, i)
                       /\ ~IsNaN(series[k].vals[t])}) > 1

(* _handle_potential_duplicates_in_append, "duplicates": some group of    *)
(* rows has more than one value that is not NaN at one time point.  The   *)
(* grouping is pandas' groupby over the index levels, which leaves out    *)
(* every row that has NaN in one of its metadata columns.                 *)
ContributingDuplicates(series, time) ==
    LET complete(i) == \A col \in MetaAttributes(series) :
                          MetaRow(series, i)[col] # NaNMeta
    IN  \E i \in 1..Len(series) : \E t \in 1..Len(time) :
           /\ complete(i)
           /\ Cardinality({k \in 1..Len(series) :
                              /\ MetaRow(series, k) = MetaRow(series, i)
                              /\ ~IsNaN(series[k].vals[t])}) > 1

(* np.asarray(self._ts) needs series of one length *)
Ragged(series, time) == \E i \in 1..Len(series) : TsLen(series[i]) # Len(time)

(* the list left as it is *)
Unsorted(ids, heap) == ids

RECURSIVE SortByName(_, _)
(* list.sort(key=lambda a: a.name): stable *)
SortByName(ids, heap) ==
    IF ids = <<>> THEN <<>>
    ELSE LET least(i) == \A j \in 1..Len(ids) :
                            heap[ids[i]].name <= heap[ids[j]].name
             first == CHOOSE i \in 1..Len(ids) :
                         least(i) /\ \A j \in 1..(i - 1) : ~least(j)
         IN  <<ids[first]>> \o
             SortByName(SubSeq(ids, 1, first - 1) \o
                        SubSeq(ids, first + 1, Len(ids)), heap)

(***************************************************************************)
(* df_append(runs, inplace, duplicate_msg); rs lists the containers given. *)
(* ScmRun.append(other) is df_append([self, other]).  duplicate_msg is     *)
(* "warn", "return", "false" (any falsy value) or another text.            *)
(***************************************************************************)
(* extends with the run at position k only *)
ExtendOnce(l, ret_list, rs, k) ==
    IF k > Len(rs) THEN l
    ELSE [l EXCEPT ![ret_list] = @ \o l[runs[rs[k]].list]]

RECURSIVE Extend(_, _, _, _)
(* for run in runs[1:]: ret._ts.extend(run._ts) *)
Extend(l, ret_list, rs, k) ==
    IF k > Len(rs) THEN l
    ELSE Extend([l EXCEPT ![ret_list] = @ \o l[runs[rs[k]].list]],
                ret_list, rs, k + 1)

DfAppend(rs, inplace, duplicate_msg) ==
    LET first == rs[1]
        call == [NoCall EXCEPT !.op = "append", !.self = first,
                               !.other = rs[Len(rs)], !.vec = rs,
                               !.inplace = inplace, !.policy = duplicate_msg]
        (* ret = runs[0] or runs[0].copy() *)
        own == ListOf(first)
        tss1 == IF inplace THEN tss
                ELSE tss \o [i \in 1..Len(own) |-> tss[own[i]]]
        lists1 == IF inplace THEN lists
                  ELSE Append(lists, [i \in 1..Len(own) |-> Len(tss) + i])
        list1 == IF inplace THEN runs[first].list ELSE Len(lists) + 1
        lists2 == Extend(lists1, list1, rs, 2)
        ids2 == lists2[list1]
        (* the new common timebase *)
        new_t == SortedSeq(UNION {Range(runs[rs[k]].time) : k \in 1..Len(rs)})
        all_valid_times == \A k \in 1..Len(rs) : runs[rs[k]].time = new_t
        reindex_error == /\ ~all_valid_times
                         /\ \E i \in 1..Len(ids2) : TsReindexFails(tss1[ids2[i]])
        tss3 == IF all_valid_times THEN tss1
                ELSE tss1 \o [i \in 1..Len(ids2) |-> TsReindex(tss1[ids2[i]], new_t)]
        lists3 == IF all_valid_times THEN lists2
                  ELSE Append(lists2, [i \in 1..Len(ids2) |-> Len(tss1) + i])
        list3 == IF all_valid_times THEN list1 ELSE Len(lists2) + 1
        time3 == IF all_valid_times THEN runs[first].time ELSE new_t
        ret3 == MkRun(list3, time3, runs[first].sep)
        series3 == [i \in 1..Len(lists3[list3]) |-> tss3[lists3[list3][i]]]
        duplicated == MetaDuplicated(series3)
        ragged == duplicated /\ Ragged(series3, time3)
        handled == /\ duplicated
                   /\ ~ragged
                   /\ duplicate_msg # "false"
                   /\ ContributingDuplicates(series3, time3)
        value_error == handled /\ duplicate_msg \notin {"warn", "return"}
        returns_data == handled /\ duplicate_msg = "return"
        (* average identical metadata *)
        tss4 == IF duplicated THEN tss3 \o GroupMean(series3, time3) ELSE tss3
        n4 == Len(tss4) - Len(tss3)
        lists4 == IF duplicated
                  THEN Append(lists3, [k \in 1..n4 |-> Len(tss3) + k])
                  ELSE lists3
        list4 == IF duplicated THEN Len(lists3) + 1 ELSE list3
        lists5 == [lists4 EXCEPT ![list4] = SortByName(@, tss4)]
        ret5 == MkRun(list4, time3, runs[first].sep)
        new == Len(runs) + 1
    IN  IF reindex_error
        THEN Post(runs, lists2, tss1, [call EXCEPT !.raised = TRUE])
        ELSE IF ragged \/ value_error
        THEN Post(IF inplace THEN [runs EXCEPT ![first] = ret3] ELSE runs,
                  lists3, tss3, [call EXCEPT !.raised = TRUE])
        ELSE IF returns_data
        THEN Post(IF inplace THEN [runs EXCEPT ![first] = ret3]
                  ELSE Append(runs, ret3),
                  lists3, tss3,
                  [call EXCEPT !.warnings = 1, !.warning = "return",
                               !.res = IF inplace THEN first ELSE new,
                               !.returned = IF inplace THEN first ELSE new])
        ELSE Post(IF inplace THEN [runs EXCEPT ![first] = ret5]
                  ELSE Append(runs, ret5),
                  lists5, tss4,
                  [call EXCEPT !.warnings = IF handled THEN 1 ELSE 0,
                               !.warning = IF handled THEN "average" ELSE "",
                               !.res = IF inplace THEN first ELSE new,
                               !.returned = IF inplace THEN 0 ELSE new])

(***************************************************************************)
(* Arithmetic between a container and a vector: the methods that xarray's  *)
(* inject_binary_ops builds from ScmRun._binary_op.  The arithmetic of one *)
(* series follows numpy: element by element, a vector of one element       *)
(* against every element, another length an error.  The vectors hold       *)
(* positive integers.                                                      *)
(***************************************************************************)
BinaryOps == {"add", "sub", "mul", "truediv"}

Apply(f, a, k) ==
    IF IsNaN(a) THEN NaN
    ELSE IF f = "add" THEN RatAdd(a, Rat(k))
    ELSE IF f = "sub" THEN RatSub(a, Rat(k))
    ELSE IF f = "mul" THEN RatScale(a, k, 1)
    ELSE RatScale(a, 1, k)

TsBinaryOp(f, ts, other) ==
    [ts EXCEPT !.vals = [j \in 1..TsLen(ts) |->
                            Apply(f, ts.vals[j],
                                  IF Len(other) = 1 THEN other[1] ELSE other[j])]]

(* len(self) *)
LenOfRun(c) == Len(ListOf(c))

_binary_op(f, c, other) ==
    LET ids == ListOf(c)
        call == [NoCall EXCEPT !.op = "binary_op", !.self = c, !.name = f,
                               !.vec = other]
        no_broadcast == \E i \in 1..Len(ids) :
                           Len(other) \notin {1, TsLen(tss[ids[i]])}
    IN  IF Len(other) # LenOfRun(c) \/ no_broadcast
        THEN Unchanged([call EXCEPT !.raised = TRUE])
        ELSE Post(Append(runs, [runs[c] EXCEPT !.list = Len(lists) + 1]),
                  Append(lists, [i \in 1..Len(ids) |-> Len(tss) + i]),
                  tss \o [i \in 1..Len(ids) |-> TsBinaryOp(f, tss[ids[i]], other)],
                  [call EXCEPT !.res = Len(runs) + 1, !.returned = Len(runs) + 1])

(***************************************************************************)
(* ScmRun.convert_unit(unit, filters).  The work is done on a copy of the  *)
(* container, whose series no other container refers to, so the steps are  *)
(* written over the series of that copy.  The filters f are filters on     *)
(* the metadata.  One unit "w" is two units "u"; a conversion from or to   *)
(* another unit raises.                                                    *)
(***************************************************************************)
KnownUnits == {<<"u">>, <<"w">>}

UnitFactor(unit) == IF unit = <<"w">> THEN 2 ELSE 1

(* UnitConverter(orig_unit, unit).convert_from(v) *)
ConvertFrom(orig_unit, unit, v) ==
    IF IsNaN(v) THEN NaN ELSE RatScale(v, UnitFactor(orig_unit), UnitFactor(unit))

(* df_append of containers over one time index, with the default           *)
(* arguments: series is the extended list of the copy of the first         *)
AppendSameTime(series, time) ==
    LET duplicated == MetaDuplicated(series)
        ragged == duplicated /\ Ragged(series, time)
    IN  CHOOSE r \in
           {[err |-> ragged,
             warnings |-> IF duplicated /\ ~ragged /\ ContributingDuplicates(series, time)
                          THEN 1 ELSE 0,
             series |-> [i \in 1..Len(merged) |->
                            merged[SortByName([k \in 1..Len(merged) |-> k], merged)[i]]]] :
               merged \in {IF duplicated /\ ~ragged THEN GroupMean(series, time)
                           ELSE series}} : TRUE

RECURSIVE ApplyUnits(_, _, _)
(* groupby("unit").map(apply_units): the groups in the order of their      *)
(* units, each with its values converted and its unit replaced             *)
ApplyUnits(to_convert, units, unit) ==
    IF units = <<>> THEN <<>>
    ELSE LET group == SelectSeq(to_convert, LAMBDA ts : ts.meta["unit"] = Head(units))
         IN  [i \in 1..Len(group) |->
                 [group[i] EXCEPT
                     !.vals = [j \in 1..Len(@) |-> ConvertFrom(Head(units), unit, @[j])],
                     !.meta = [k \in DOMAIN @ |->
                                  IF k = "unit" THEN unit
                                  ELSE IF k = "unit_context" THEN NaNMeta
                                  ELSE @[k]]]]
             \o ApplyUnits(to_convert, Tail(units), unit)

convert_unit(c, unit, f) ==
    LET self == runs[c]
        call == [NoCall EXCEPT !.op = "convert_unit", !.self = c, !.name = unit,
                               !.filt = f]
        own == SeriesOf(c)
        ret == IF "unit_context" \in MetaAttributes(own) THEN own
               ELSE [i \in 1..Len(own) |->
                        [own[i] EXCEPT !.meta = ("unit_context" :> NaNMeta) @@ @]]
        af == ApplyFilters(ret, self.time, self.sep, f)
        float_mask == Len(ret) = 0 \/ Len(self.time) = 0
        to_convert == Pick(ret, af.keep_meta)
        to_not_convert == Pick(ret, Invert(af.keep_meta))
        units == SortTexts(Range(MetaColumn(to_convert, "unit")))
        unknown == unit \notin KnownUnits \/ Range(units) \ KnownUnits # {}
        converted == AppendSameTime(ApplyUnits(to_convert, units, unit), self.time)
        appended == AppendSameTime(converted.series \o to_not_convert, self.time)
        n == Len(appended.series)
    IN  IF \/ af.err \/ float_mask
           \/ to_convert = <<>> \/ unknown
           \/ converted.err \/ appended.err
        THEN Unchanged([call EXCEPT !.raised = TRUE])
        ELSE Post(Append(runs, MkRun(Len(lists) + 1, self.time, self.sep)),
                  Append(lists, [i \in 1..n |-> Len(tss) + i]),
                  tss \o appended.series,
                  [call EXCEPT !.res = Len(runs) + 1, !.returned = Len(runs) + 1,
                               !.warnings = converted.warnings + appended.warnings])

(***************************************************************************)
(* The netCDF codec.  A file is a record: the time variable, the names of  *)
(* the dimensions and, for every variable, its escaped name, its           *)
(* attributes and the rows of its grid that were written.  Cells of the    *)
(* grid that no series fills hold NaN.  Times and values are stored as     *)
(* 8-byte floats, which hold the model's integers and rationals as they    *)
(* are.  disk maps a path to the file stored there.                        *)
(***************************************************************************)
_var_to_nc(var) == Lower(Replace(Replace(var, <<"|">>, <<"_", "_">>), <<" ">>, <<"_">>))

_nc_to_var(var) == Title(Replace(Replace(var, <<"_", "_">>, <<"|">>), <<"_">>, <<" ">>))

(* the order in which the grid of a variable is walked: the first          *)
(* dimension runs fastest                                                  *)
CoordLess(dimensions, r1, r2) ==
    \E i \in 1..Len(dimensions) :
        /\ ValueLess(r1[dimensions[i]], r2[dimensions[i]])
        /\ \A j \in (i + 1)..Len(dimensions) : r1[dimensions[j]] = r2[dimensions[j]]

RECURSIVE SortCoords(_, _)
SortCoords(dimensions, R) ==
    IF R = {} THEN <<>>
    ELSE LET m == CHOOSE r \in R : \A q \in R \ {r} : CoordLess(dimensions, r, q)
         IN  <<m>> \o SortCoords(dimensions, R \ {m})

JunkFile == [kind |-> "junk"]

(* a netCDF file some other tool wrote: it has no time variable *)
ForeignFile == [kind |-> "nc", dimensions |-> <<>>, variables |-> <<>>]

_write_nc(series, time_points, dimensions) ==
    LET attrs == MetaAttributes(series)
        dims == Range(dimensions)
        row(i) == MetaRow(series, i)
        variables == SortTexts({row(i)["variable"] : i \in 1..Len(series)})
        members(v) == {i \in 1..Len(series) : row(i)["variable"] = v}
        bad_dims ==
            \E d \in dims :
                \/ d \notin attrs
                \/ /\ \E i \in 1..Len(series) : row(i)[d] = NaNMeta
                   /\ \E i \in 1..Len(series) : row(i)[d] # NaNMeta
        coord(i) == [d \in dims |-> row(i)[d]]
        not_unique(v) ==
            \E d \in dims :
                \/ d = "variable"
                \/ \E i, j \in members(v) : i < j /\ row(i)[d] = row(j)[d]
        inconsistent(v) ==
            \E a \in attrs \ (dims \cup {"variable"}) :
                \E i, j \in members(v) : row(i)[a] # row(j)[a]
        name_in_use(k) ==
            \/ _var_to_nc(variables[k]) \in {<<"t", "i", "m", "e">>}
            \/ \E j \in 1..(k - 1) : _var_to_nc(variables[j]) = _var_to_nc(variables[k])
        fails(k) ==
            \/ not_unique(variables[k])
            \/ inconsistent(variables[k])
            \/ name_in_use(k)
            \/ \E i \in members(variables[k]) : TsLen(series[i]) # Len(time_points)
        failing == {k \in 1..Len(variables) : fails(k)}
        written == IF bad_dims THEN 0
                   ELSE IF failing = {} THEN Len(variables)
                   ELSE SetMin(failing) - 1
        variable(k) ==
            LET v == variables[k]
                first == SetMin(members(v))
                coords == {coord(i) : i \in members(v)}
                at(c) == SetMax({i \in members(v) : coord(i) = c})
                sorted == IF dims = {} THEN <<coord(first)>>
                          ELSE SortCoords(dimensions, coords)
            IN  [name |-> _var_to_nc(v),
                 attrs |-> [a \in attrs \ (dims \cup {"variable"}) |-> row(first)[a]],
                 rows |-> [n \in 1..Len(sorted) |->
                              [coord |-> sorted[n], vals |-> series[at(sorted[n])].vals]]]
    IN  [err |-> bad_dims \/ failing # {},
         file |-> [kind |-> "nc", time |-> time_points, dimensions |-> dimensions,
                   variables |-> [k \in 1..written |-> variable(k)]]]

RECURSIVE FlattenRows(_)
(* the rows of every variable that hold a number, with their metadata *)
FlattenRows(variables) ==
    IF variables = <<>> THEN <<>>
    ELSE LET var == Head(variables)
             var_meta == [variable |-> _nc_to_var(var.name)] @@ var.attrs
             valid == SelectSeq(var.rows, LAMBDA r : \E i \in 1..Len(r.vals) : ~IsNaN(r.vals[i]))
         IN  [n \in 1..Len(valid) |->
                 [meta |-> valid[n].coord @@ var_meta, vals |-> valid[n].vals]]
             \o FlattenRows(Tail(variables))

_read_nc(ds) ==
    LET rows == FlattenRows(ds.variables)
        cols == UNION {DOMAIN rows[n].meta : n \in 1..Len(rows)}
        columns == [c \in cols |-> [n \in 1..Len(rows) |-> rows[n].meta[c]]]
        data == [n \in 1..Len(rows) |-> rows[n].vals]
    IN  IF "time" \notin DOMAIN ds \/ rows = <<>>
        THEN [err |-> TRUE, series |-> <<>>, time |-> <<>>]
        ELSE [err |-> FromTs(data, ds.time, columns).err,
              series |-> FromTs(data, ds.time, columns).series,
              time |-> ds.time]

PostDisk(r, l, t, call, d) ==
    [runs |-> r, lists |-> l, tss |-> t, last |-> call, disk |-> d]

(* run.to_nc(fname, dimensions): the file is written when the data set is  *)
(* closed, also when the writing stopped with an error                     *)
run_to_nc(c, fname, dimensions) ==
    LET dims == SelectSeq(dimensions, LAMBDA d : d # "time")
        w == _write_nc(SeriesOf(c), runs[c].time, dims)
        call == [NoCall EXCEPT !.op = "to_nc", !.self = c, !.name = fname]
    IN  PostDisk(runs, lists, tss, [call EXCEPT !.raised = w.err],
                 (fname :> w.file) @@ disk)

(* ScmRun.from_nc(fname): what is not a netCDF file cannot be opened; an   *)
(* error while reading an opened file is logged and nothing is returned    *)
nc_to_run(fname) ==
    LET call == [NoCall EXCEPT !.op = "from_nc", !.name = fname]
    IN  IF fname \notin DOMAIN disk \/ disk[fname].kind # "nc"
        THEN Unchanged([call EXCEPT !.raised = TRUE])
        ELSE LET r == _read_nc(disk[fname])
                 n == Len(r.series)
             IN  IF r.err
                 THEN Unchanged([call EXCEPT !.warning = "Failed reading netdf file"])
                 ELSE Post(Append(runs, MkRun(Len(lists) + 1, r.time, HIERARCHY_SEPARATOR)),
                           Append(lists, [i \in 1..n |-> Len(tss) + i]),
                           tss \o r.series,
                           [call EXCEPT !.res = Len(runs) + 1])

(***************************************************************************)
(* ScmDatabase.  A path is the sequence of its components, each a text;    *)
(* the directories are the proper prefixes of the paths of the files.      *)
(* The database of the model has the root directory r and the levels       *)
(* variable and scenario.                                                  *)
(***************************************************************************)
DbRoot == <<<<"r">>>>

DbLevels == <<"variable", "scenario">>

DotDot == <<".", ".">>

(* safe_char in _get_disk_filename *)
SafeChar(ch) == IF IsAlnum(ch) \/ ch \in {"-", "/", "*", "_", "."} THEN ch ELSE "-"

_get_disk_filename(inp) ==
    [i \in 1..Len(inp) |-> [j \in 1..Len(inp[i]) |-> SafeChar(inp[i][j])]]

RECURSIVE Resolve(_, _)
(* pathlib.Path(d).resolve(), done is the part resolved so far *)
Resolve(d, done) ==
    IF d = <<>> THEN done
    ELSE IF Head(d) = DotDot
         THEN Resolve(Tail(d), IF done = <<>> THEN <<>> ELSE SubSeq(done, 1, Len(done) - 1))
         ELSE Resolve(Tail(d), Append(done, Head(d)))

IsPrefix(a, b) == Len(a) <= Len(b) /\ SubSeq(b, 1, Len(a)) = a

(* _check_is_subdir does not raise *)
IsSubdir(root, d) ==
    /\ Resolve(root, <<>>) # Resolve(d, <<>>)
    /\ IsPrefix(Resolve(root, <<>>), Resolve(d, <<>>))

Entries(d) == UNION {{SubSeq(path, 1, k) : k \in 0..Len(path)} : path \in DOMAIN d}

RECURSIVE GlobFrom(_, _, _)
(* glob.glob(pattern) below the directory at: the paths found, resolved *)
GlobFrom(pattern, at, d) ==
    IF pattern = <<>> THEN {at}
    ELSE IF at \in DOMAIN d THEN {}
    ELSE IF Head(pattern) = DotDot
         THEN GlobFrom(Tail(pattern),
                       IF at = <<>> THEN <<>> ELSE SubSeq(at, 1, Len(at) - 1), d)
         ELSE UNION {GlobFrom(Tail(pattern), e, d) :
                        e \in {x \in Entries(d) :
                                  /\ Len(x) = Len(at) + 1
                                  /\ IsPrefix(at, x)
                                  /\ Glob(Head(pattern), x[Len(x)])}}

RECURSIVE JoinLevels(_)
(* "__".join(out_levels) *)
JoinLevels(out_levels) ==
    IF Len(out_levels) = 1 THEN out_levels[1]
    ELSE out_levels[1] \o <<"_", "_">> \o JoinLevels(Tail(out_levels))

(* _get_out_filepath: the unsanitised path, which _check_is_subdir sees *)
OutFname(out_levels) ==
    DbRoot \o out_levels \o <<JoinLevels(out_levels) \o <<".", "n", "c">>>>

RECURSIVE Concat(_)
Concat(seqs) == IF seqs = <<>> THEN <<>> ELSE Head(seqs) \o Concat(Tail(seqs))

(* df_append of containers with the default arguments; parts holds the     *)
(* series and the time index of each                                       *)
RunAppend(parts) ==
    LET new_t == SortedSeq(UNION {Range(parts[k].time) : k \in 1..Len(parts)})
        all_valid_times == \A k \in 1..Len(parts) : parts[k].time = new_t
        series == Concat([k \in 1..Len(parts) |-> parts[k].series])
        reindex_error == /\ ~all_valid_times
                         /\ \E i \in 1..Len(series) : TsReindexFails(series[i])
    IN  CHOOSE r \in
           {[err |-> reindex_error \/ merged.err, series |-> merged.series,
             time |-> new_t] :
               merged \in {AppendSameTime(IF all_valid_times THEN series
                                          ELSE [i \in 1..Len(series) |->
                                                   TsReindex(series[i], new_t)],
                                          new_t)}} : TRUE

(* scmrun.to_nc(out_file, dimensions) with the dimensions the metadata     *)
(* columns of more than one value                                          *)
WriteSingleFile(scmrun, out_file, d) ==
    LET varying(col) == Cardinality(Range(MetaColumn(scmrun.series, col)) \ {NaNMeta}) > 1
        dimensions == SelectSeq(KeyOrder, LAMBDA col :
                         col \in MetaAttributes(scmrun.series) /\ varying(col))
    IN  CHOOSE r \in {[err |-> w.err, disk |-> (out_file :> w.file) @@ d] :
                         w \in {_write_nc(scmrun.series, scmrun.time, dimensions)}} : TRUE

(* _save_to_database_single_file for the group with the level values key *)
SaveSingleFile(series, time, key, d) ==
    LET out_levels == [i \in 1..Len(DbLevels) |->
                          Replace(key[DbLevels[i]], <<"/">>, <<"_">>)]
        out_file == _get_disk_filename(OutFname(out_levels))
        merge(existing_run) ==
            IF existing_run.err THEN [err |-> TRUE, disk |-> d]
            ELSE CHOOSE r \in
                    {IF scmrun.err THEN [err |-> TRUE, disk |-> d]
                     ELSE WriteSingleFile(scmrun, out_file, d) :
                        scmrun \in {RunAppend(<<[series |-> existing_run.series,
                                                 time |-> existing_run.time],
                                                [series |-> series, time |-> time]>>)}} :
                    TRUE
    IN  IF \/ \E i \in 1..Len(DbLevels) : key[DbLevels[i]] = NaNMeta
           \/ ~IsSubdir(DbRoot, OutFname(out_levels))
        THEN [err |-> TRUE, disk |-> d]
        ELSE IF out_file \notin DOMAIN d
        THEN WriteSingleFile([series |-> series, time |-> time], out_file, d)
        ELSE IF d[out_file].kind # "nc" THEN [err |-> TRUE, disk |-> d]
        ELSE CHOOSE r \in {merge(existing_run) :
                              existing_run \in {_read_nc(d[out_file])}} : TRUE

RECURSIVE SaveGroups(_, _, _, _)
SaveGroups(keys, series, time, d) ==
    IF keys = <<>> THEN [err |-> FALSE, disk |-> d]
    ELSE LET group == SelectSeq(series, LAMBDA ts :
                         \A i \in 1..Len(DbLevels) :
                            ts.meta[DbLevels[i]] = Head(keys)[DbLevels[i]])
         IN  CHOOSE r \in {IF one.err THEN one
                           ELSE SaveGroups(Tail(keys), series, time, one.disk) :
                              one \in {SaveSingleFile(group, time, Head(keys), d)}} : TRUE

(* ScmDatabase.save(scmrun): one file for each group of                    *)
(* scmrun.groupby(levels), the groups in the order of their level values   *)
save(c) ==
    LET series == SeriesOf(c)
        keys == SortCoords(Reverse(DbLevels),
                           {[l \in Range(DbLevels) |-> series[i].meta[l]] :
                               i \in 1..Len(series)})
        call == [NoCall EXCEPT !.op = "db_save", !.self = c]
    IN  CHOOSE r \in {PostDisk(runs, lists, tss, [call EXCEPT !.raised = saved.err],
                               saved.disk) :
                         saved \in {SaveGroups(keys, series, runs[c].time, disk)}} : TRUE

(* a filter value given as one string: "/" is replaced; a list is taken   *)
(* as it is                                                                *)
LevelValues(v) ==
    IF v.str THEN <<Replace(v.values[1], <<"/">>, <<"_">>)>> ELSE v.values

(* the files load reads: for each choice of one value per level, what the  *)
(* sanitised pattern root/value/.../*.nc finds                             *)
LoadFiles(filters, d) ==
    LET options(level) == IF level \in DOMAIN filters
                          THEN Range(LevelValues(filters[level]))
                          ELSE {<<"*">>}
    IN  UNION {GlobFrom(_get_disk_filename(DbRoot \o <<v1, v2, <<"*", ".", "n", "c">>>>),
                        <<>>, d) :
                  v1 \in options(DbLevels[1]), v2 \in options(DbLevels[2])}

(* run_append of what from_nc gives for each file *)
LoadAppend(reads, call) ==
    IF \E k \in 1..Len(reads) : reads[k].err
    THEN Unchanged([call EXCEPT !.raised = TRUE])
    ELSE CHOOSE r \in
            {IF appended.err THEN Unchanged([call EXCEPT !.raised = TRUE])
             ELSE Post(Append(runs, MkRun(Len(lists) + 1, appended.time,
                                          HIERARCHY_SEPARATOR)),
                       Append(lists, [i \in 1..Len(appended.series) |-> Len(tss) + i]),
                       tss \o appended.series,
                       [call EXCEPT !.res = Len(runs) + 1, !.returned = Len(runs) + 1]) :
                appended \in {RunAppend(reads)}} : TRUE

(* ScmDatabase.load(filters): the files are read in the order of their     *)
(* paths                                                                   *)
load(filters) ==
    LET call == [NoCall EXCEPT !.op = "db_load", !.filt = filters]
    IN  IF DOMAIN filters \ Range(DbLevels) # {}
        THEN Unchanged([call EXCEPT !.raised = TRUE])
        ELSE CHOOSE r \in
                {IF files = <<>> \/ \E k \in 1..Len(files) : disk[files[k]].kind # "nc"
                 THEN Unchanged([call EXCEPT !.raised = TRUE])
                 ELSE CHOOSE q \in
                         {LoadAppend(reads, call) :
                             reads \in {[k \in 1..Len(files) |-> _read_nc(disk[files[k]])]}} :
                         TRUE :
                    files \in {SortPaths(LoadFiles(filters, disk) \cap DOMAIN disk)}} : TRUE

(* the directories delete looks at *)
LoadDirs(filters, d) ==
    LET paths_to_load == [i \in 1..Len(DbLevels) |->
                             IF DbLevels[i] \in DOMAIN filters
                             THEN LevelValues(filters[DbLevels[i]])[1]
                             ELSE <<"*">>]
    IN  GlobFrom(_get_disk_filename(DbRoot \o paths_to_load), <<>>, d)

(* ScmDatabase.delete(filters): with these levels either every directory   *)
(* found is below the root or none is                                      *)
delete(filters) ==
    LET call == [NoCall EXCEPT !.op = "db_delete", !.filt = filters]
        load_dirs == LoadDirs(filters, disk)
        kept == {path \in DOMAIN disk : \A dir \in load_dirs : ~IsPrefix(dir, path)}
    IN  IF \/ DOMAIN filters \ Range(DbLevels) # {}
           \/ \E level \in DOMAIN filters : ~filters[level].str
           \/ \E dir \in load_dirs : ~IsSubdir(DbRoot, dir) \/ dir \in DOMAIN disk
        THEN PostDisk(runs, lists, tss, [call EXCEPT !.raised = TRUE], disk)
        ELSE PostDisk(runs, lists, tss, call, [path \in kept |-> disk[path]])

(***************************************************************************)
(* Inputs of the calls.                                                    *)
(***************************************************************************)
Txt1(a) == <<a>>

Txt3(a, b, c) == <<a, b, c>>

Cols(variable, scenario) ==
    [model |-> <<Txt1("m")>>, region |-> <<Txt1("w")>>, unit |-> <<Txt1("u")>>,
     variable |-> variable, scenario |-> scenario]

ConstructInputs ==
    { [data |-> <<<<Rat(1), Rat(2)>>, <<Rat(2), Rat(2)>>>>, index |-> <<1, 2>>,
       columns |-> Cols(<<Txt1("P"), Txt3("P", "|", "C")>>, <<Txt1("a")>>)],
      [data |-> <<<<Rat(2), Rat(1)>>>>, index |-> <<2, 3>>,
       columns |-> Cols(<<Txt1("P")>>, <<Txt1("a")>>)],
      [data |-> <<<<Rat(1)>>, <<Rat(2)>>>>, index |-> <<2>>,
       columns |-> Cols(<<Txt1("P")>>, <<Txt1("a"), Txt1("b"), Txt1("c")>>)] }

MetaFilter(col, pats) == [NoFilter EXCEPT !.meta = (col :> pats)]

YearFilter(ys) == [NoFilter EXCEPT !.year = [given |-> TRUE, vals |-> ys]]

FilterInputs ==
    { NoFilter,
      MetaFilter("variable", {Txt1("P")}),
      YearFilter({2}),
      [MetaFilter("variable", {Txt1("P")}) EXCEPT
          !.year = [given |-> TRUE, vals |-> {2}]] }

TimeInputs == {<<3, 1>>, <<2>>}

MetaInputs == {<<Txt1("b")>>, <<Txt1("x"), Txt1("y")>>}

MetaNames == {"scenario", "junk"}

Policies == {"warn", "return", "false", "junk"}

Init ==
    /\ runs = <<>>
    /\ lists = <<>>
    /\ tss = <<>>
    /\ last = NoCall
    /\ disk = NoDisk

DoConstruct ==
    \E inp \in ConstructInputs : Do(Construct(inp.data, inp.index, inp.columns))

DoFromRun == \E c \in RunIds : Do(FromRun(c))

DoCopy == \E c \in RunIds : Do(Copy(c))

DoFilter ==
    \E c \in RunIds, keep \in BOOLEAN, inplace \in BOOLEAN, f \in FilterInputs :
        Do(Filter(c, keep, inplace, f))

DoSetTime == \E c \in RunIds, value \in TimeInputs : Do(SetTime(c, value))

DoSetMeta ==
    \E c \in RunIds, meta \in MetaInputs, name \in MetaNames :
        Do(SetMeta(c, meta, name))

DoInterpolate ==
    \E c \in RunIds, target \in {<<1, 2, 3>>, <<2>>}, kind \in {"linear", "none"} :
        Do(Interpolate(c, target, kind))

DoAppend ==
    \E a \in RunIds, b \in RunIds, inplace \in BOOLEAN, policy \in Policies :
        Do(DfAppend(<<a, b>>, inplace, policy))

Next ==
    \/ DoConstruct
    \/ DoFromRun
    \/ DoCopy
    \/ DoFilter
    \/ DoSetTime
    \/ DoSetMeta
    \/ DoInterpolate
    \/ DoAppend

Spec == Init /\ [][Next]_vars

(***************************************************************************)
(* The heap right after the containers cs were constructed, one after the *)
(* other: cs[i] gives the series, the time index and the separator of the *)
(* i-th.                                                                   *)
(***************************************************************************)
RECURSIVE Before(_, _)
Before(cs, i) == IF i = 1 THEN 0 ELSE Before(cs, i - 1) + Len(cs[i - 1].series)

RECURSIVE Flatten(_)
Flatten(cs) == IF cs = <<>> THEN <<>> ELSE cs[1].series \o Flatten(Tail(cs))

Constructed(cs) ==
    Post([i \in 1..Len(cs) |-> MkRun(i, cs[i].time, cs[i].sep)],
         [i \in 1..Len(cs) |->
             [j \in 1..Len(cs[i].series) |-> Before(cs, i) + j]],
         Flatten(cs),
         [NoCall EXCEPT !.op = "construct", !.res = Len(cs)])

StartFrom(cs) ==
    /\ runs = Constructed(cs).runs
    /\ lists = Constructed(cs).lists
    /\ tss = Constructed(cs).tss
    /\ last = Constructed(cs).last
    /\ disk = NoDisk

(***************************************************************************)
(* SpecFilter: filter calls, chained, on one constructed container.        *)
(***************************************************************************)
MaxFilterCalls == 2

VarP == <<"P">>
VarPC == <<"P", "|", "C">>
VarPCG == <<"P", "|", "C", "|", "G">>
VarPsC == <<"P", "/", "C">>

FilterData(n) == [i \in 1..n |-> <<Rat(i), Rat(i + 1)>>]

FilterVariables ==
    {<<VarP, VarPC>>, <<VarP, VarPC, VarPCG>>, <<VarPsC, VarPC, VarP>>}

FilterScenarios == {<<Txt1("a")>>, <<Txt1("a"), Txt1("b")>>,
                    <<Txt1("a"), Txt1("b"), Txt1("a")>>}

Separators == {"|", "/"}

(* the containers SpecFilter starts from: the separator of a container is *)
(* set right after its construction                                        *)
FilterRuns ==
    {[series |-> FromTs(FilterData(Len(v)), <<1, 2>>, Cols(v, sc)).series,
      time |-> <<1, 2>>, sep |-> sep] :
        <<v, sc, sep>> \in
           {x \in FilterVariables \X FilterScenarios \X Separators :
               /\ ~FromTs(FilterData(Len(x[1])), <<1, 2>>, Cols(x[1], x[2])).err
               /\ x[3] = "/" => x[1][1] = VarPsC}}

LevelFilter(level) == [NoFilter EXCEPT !.level = level]

Both(f, g) ==
    [meta |-> [k \in DOMAIN f.meta \cup DOMAIN g.meta |->
                  IF k \in DOMAIN f.meta THEN f.meta[k] ELSE g.meta[k]],
     level |-> IF f.level.given THEN f.level ELSE g.level,
     year |-> IF f.year.given THEN f.year ELSE g.year]

Levels ==
    {IntLevel(0), IntLevel(1), StrLevel(1, "-"), StrLevel(1, "+"),
     StrLevel(1, ""), StrLevel(1, "/")}

MetaOnlyFilters ==
    { NoFilter,
      MetaFilter("variable", {VarP}),
      MetaFilter("variable", {<<"P", "*">>}),
      MetaFilter("variable", {<<"P", "|", "*">>}),
      MetaFilter("variable", {VarP, VarPC}),
      MetaFilter("scenario", {Txt1("a")}),
      MetaFilter("scenario", {Txt1("b"), Txt1("z")}),
      MetaFilter("scenario", {Txt1("z")}),
      MetaFilter("model", {Txt1("m")}),
      Both(MetaFilter("variable", {<<"P", "*">>}), MetaFilter("scenario", {Txt1("a")})),
      Both(MetaFilter("variable", {VarPC}), MetaFilter("scenario", {Txt1("b")})),
      MetaFilter("junk", {Txt1("x")}) }

LevelFilters ==
    {LevelFilter(l) : l \in Levels}
    \cup {Both(MetaFilter("variable", {<<"*">>}), LevelFilter(IntLevel(1))),
          Both(MetaFilter("variable", {<<"P", "|", "*">>}), LevelFilter(IntLevel(1))),
          Both(MetaFilter("variable", {<<"P", "*">>}), LevelFilter(StrLevel(1, "+")))}

TemporalFilters ==
    { YearFilter({1}), YearFilter({3}), YearFilter({1, 2}),
      Both(MetaFilter("variable", {VarP}), YearFilter({1})),
      Both(MetaFilter("scenario", {Txt1("z")}), YearFilter({3})) }

FilterArgs == MetaOnlyFilters \cup LevelFilters \cup TemporalFilters

InitFilter == \E c \in FilterRuns : StartFrom(<<c>>)

FilterStep ==
    \E c \in RunIds, keep \in BOOLEAN, inplace \in BOOLEAN, f \in FilterArgs :
        Step(Filter(c, keep, inplace, f), MaxFilterCalls)

NextFilter == FilterStep

SpecFilter == InitFilter /\ [][NextFilter]_vars

(***************************************************************************)
(* SpecAppend: copies and appends, chained, of one or two constructed      *)
(* containers.                                                             *)
(***************************************************************************)
MaxAppendCalls == 2

ColsEcs(variable, scenario, ecs) ==
    [k \in DOMAIN Cols(variable, scenario) \cup {"ecs"} |->
        IF k = "ecs" THEN ecs ELSE Cols(variable, scenario)[k]]

AppendInput(data, index, columns) ==
    [series |-> FromTs(data, index, columns).series,
     time |-> index, sep |-> HIERARCHY_SEPARATOR]

AppendRuns ==
    << AppendInput(<<<<Rat(1), Rat(2)>>>>, <<1, 2>>, Cols(<<VarP>>, <<Txt1("a")>>)),
       AppendInput(<<<<Rat(3), NaN>>>>, <<1, 2>>, Cols(<<VarP>>, <<Txt1("a")>>)),
       AppendInput(<<<<Rat(5)>>>>, <<3>>, Cols(<<VarP>>, <<Txt1("a")>>)),
       AppendInput(<<<<Rat(4), Rat(6)>>>>, <<2, 3>>, Cols(<<VarP>>, <<Txt1("a")>>)),
       AppendInput(<<<<Rat(1), Rat(2)>>, <<Rat(2), Rat(2)>>>>, <<1, 2>>,
                   Cols(<<VarP, VarPC>>, <<Txt1("a")>>)),
       AppendInput(<<<<Rat(1), Rat(2)>>>>, <<1, 2>>,
                   ColsEcs(<<VarP>>, <<Txt1("a")>>, <<NaNMeta>>)),
       AppendInput(<<<<Rat(7), Rat(8)>>>>, <<2, 3>>,
                   ColsEcs(<<VarPC>>, <<Txt1("a")>>, <<Txt1("x")>>)),
       AppendInput(<<<<Rat(1), Rat(2)>>, <<Rat(3), Rat(4)>>>>, <<1, 2>>,
                   Cols(<<VarP>>, <<Txt1("a")>>)),
       AppendInput(<<<<Rat(1), Rat(2)>>>>, <<1, 2>>, Cols(<<VarP>>, <<Txt1("b")>>)) >>

InitAppend ==
    \E i \in 1..Len(AppendRuns) :
        \/ StartFrom(<<AppendRuns[i]>>)
        \/ \E j \in i..Len(AppendRuns) : StartFrom(<<AppendRuns[i], AppendRuns[j]>>)

CopyStep == \E c \in RunIds : Step(Copy(c), MaxAppendCalls)

AppendStep ==
    \E a \in RunIds, b \in RunIds, inplace \in BOOLEAN, policy \in Policies :
        Step(DfAppend(<<a, b>>, inplace, policy), MaxAppendCalls)

NextAppend ==
    \/ CopyStep
    \/ AppendStep

SpecAppend == InitAppend /\ [][NextAppend]_vars

(***************************************************************************)
(* Appending three containers: df_append([A, B, C]) in every order of the  *)
(* three, and the chain A.append(B).append(C) made of two calls.           *)
(***************************************************************************)
MaxOrderCalls == 2

MaxOrderRuns == 5

MaxOrderLists == 8

MaxOrderTs == 16

OrderRuns == <<AppendRuns[1], AppendRuns[2], AppendRuns[4], AppendRuns[5],
               AppendRuns[7], AppendRuns[9]>>

InitOrder ==
    \E i \in 1..Len(OrderRuns) : \E j \in i..Len(OrderRuns) :
    \E k \in j..Len(OrderRuns) :
        StartFrom(<<OrderRuns[i], OrderRuns[j], OrderRuns[k]>>)

Orders(S) == {rs \in [1..Cardinality(S) -> S] : Range(rs) = S}

AppendThreeStep ==
    \E rs \in Orders({1, 2, 3}), inplace \in BOOLEAN :
        StepWithin(DfAppend(rs, inplace, "warn"),
                   MaxOrderCalls, MaxOrderRuns, MaxOrderLists, MaxOrderTs)

ChainStep ==
    \E a \in RunIds, b \in RunIds :
        StepWithin(DfAppend(<<a, b>>, FALSE, "warn"),
                   MaxOrderCalls, MaxOrderRuns, MaxOrderLists, MaxOrderTs)

NextOrder ==
    \/ AppendThreeStep
    \/ ChainStep

SpecOrder == InitOrder /\ [][NextOrder]_vars

(***************************************************************************)
(* Interpolating containers onto their own time index, after the calls     *)
(* that give a container its series and its time index.                    *)
(***************************************************************************)
MaxInterpCalls == 3

ExtrapolationTypes == {"linear", "constant", "none"}

InitInterp ==
    \E inp \in ConstructInputs :
        StartFrom(<<AppendInput(inp.data, inp.index, inp.columns)>>)

InterpFromRun == \E c \in RunIds : Step(FromRun(c), MaxInterpCalls)

InterpCopy == \E c \in RunIds : Step(Copy(c), MaxInterpCalls)

InterpSetTime ==
    \E c \in RunIds, value \in TimeInputs : Step(SetTime(c, value), MaxInterpCalls)

InterpolateOwn ==
    \E c \in RunIds, kind \in ExtrapolationTypes :
        Step(Interpolate(c, runs[c].time, kind), MaxInterpCalls)

NextInterp ==
    \/ InterpFromRun
    \/ InterpCopy
    \/ InterpSetTime
    \/ InterpolateOwn

SpecInterp == InitInterp /\ [][NextInterp]_vars

(***************************************************************************)
(* Writing containers to netCDF files and reading the files back.  The     *)
(* variable names are made of words, spaces and the hierarchy separator.   *)
(***************************************************************************)
MaxNcCalls == 3

NcNames ==
    {<<"P">>, <<"P", "|", "C">>, <<"P", " ", "C">>, <<"C", "O">>, <<"c", "o">>,
     <<"P", "c", "|", "G">>, <<"P", " ", "|", "C">>}

NcRuns ==
    {AppendInput(<<<<Rat(1), Rat(2)>>, <<Rat(3), NaN>>>>, <<1, 2>>,
                 Cols(<<v>>, <<Txt1("a"), Txt1("b")>>)) : v \in NcNames}
    \cup {AppendInput(<<<<Rat(1), Rat(2)>>, <<Rat(3), Rat(4)>>>>, <<1, 2>>,
                      Cols(<<VarP, VarPC>>, <<Txt1("a")>>)),
          AppendInput(<<<<Rat(1), Rat(2)>>, <<NaN, NaN>>>>, <<1, 2>>,
                      Cols(<<VarP>>, <<Txt1("a"), Txt1("b")>>))}

NcPaths == {<<"x">>, <<"y">>}

NcDimensions == {<<"scenario">>, <<"region">>, <<"scenario", "time">>}

NcDisks == {NoDisk, <<"x">> :> JunkFile, <<"x">> :> ForeignFile}

InitNc ==
    \E inp \in NcRuns, d \in NcDisks :
        /\ runs = Constructed(<<inp>>).runs
        /\ lists = Constructed(<<inp>>).lists
        /\ tss = Constructed(<<inp>>).tss
        /\ last = Constructed(<<inp>>).last
        /\ disk = d

NcWrite ==
    \E c \in RunIds, fname \in NcPaths, dimensions \in NcDimensions :
        Step(run_to_nc(c, fname, dimensions), MaxNcCalls)

NcRead == \E fname \in NcPaths : Step(nc_to_run(fname), MaxNcCalls)

NextNc ==
    \/ NcWrite
    \/ NcRead

SpecNc == InitNc /\ [][NextNc]_vars

(***************************************************************************)
(* Arithmetic with vectors on containers of one to three series over two   *)
(* or three time steps.                                                    *)
(***************************************************************************)
MaxOpsCalls == 2

OpsRuns ==
    {AppendInput(<<<<Rat(1), Rat(2), NaN>>>>, <<1, 2, 3>>, Cols(<<VarP>>, <<Txt1("a")>>)),
     AppendInput(<<<<Rat(1), Rat(2), Rat(3)>>, <<Rat(4), Rat(5), Rat(6)>>>>, <<1, 2, 3>>,
                 Cols(<<VarP>>, <<Txt1("a"), Txt1("b")>>)),
     AppendInput(<<<<Rat(1), Rat(2)>>, <<Rat(4), Rat(5)>>>>, <<1, 2>>,
                 Cols(<<VarP, VarPC>>, <<Txt1("a")>>)),
     AppendInput(<<<<Rat(1), Rat(2)>>, <<Rat(3), Rat(4)>>, <<Rat(5), Rat(6)>>>>, <<1, 2>>,
                 Cols(<<VarP, VarPC, VarPCG>>, <<Txt1("a")>>)),
     AppendInput(<<<<Rat(1), Rat(2)>>, <<Rat(4), Rat(5)>>>>, <<1, 2>>,
                 [Cols(<<VarP>>, <<Txt1("a"), Txt1("b")>>)
                     EXCEPT !.unit = <<Txt1("u"), Txt1("w")>>]),
     AppendInput(<<<<Rat(1), Rat(2)>>, <<Rat(4), NaN>>>>, <<1, 2>>,
                 [Cols(<<VarP>>, <<Txt1("a")>>)
                     EXCEPT !.unit = <<Txt1("u"), Txt1("w")>>]),
     AppendInput(<<<<Rat(1), Rat(2)>>, <<Rat(3), Rat(4)>>, <<Rat(5), Rat(6)>>>>, <<1, 2>>,
                 [Cols(<<VarP, VarPC, VarPCG>>, <<Txt1("a")>>)
                     EXCEPT !.unit = <<Txt1("u"), Txt1("w"), Txt1("x")>>])}

UnitInputs == {<<"u">>, <<"w">>, <<"x">>}

UnitFilters ==
    {NoFilter,
     MetaFilter("unit", {Txt1("u")}),
     MetaFilter("unit", {Txt1("w")}),
     MetaFilter("scenario", {Txt1("b")}),
     MetaFilter("variable", {VarPC})}

Vectors == {<<2>>, <<1, 2>>, <<2, 3>>, <<1, 2, 3>>, <<3, 2, 1, 2>>}

InitOps == \E inp \in OpsRuns : StartFrom(<<inp>>)

OpsCopy == \E c \in RunIds : Step(Copy(c), MaxOpsCalls)

VectorOp ==
    \E c \in RunIds, f \in BinaryOps, other \in Vectors :
        Step(_binary_op(f, c, other), MaxOpsCalls)

ConvertUnit ==
    \E c \in RunIds, unit \in UnitInputs, f \in UnitFilters :
        Step(convert_unit(c, unit, f), MaxOpsCalls)

NextOps ==
    \/ OpsCopy
    \/ VectorOp
    \/ ConvertUnit

SpecOps == InitOps /\ [][NextOps]_vars

(***************************************************************************)
(* Saving containers to the database, loading and deleting with filters.   *)
(* A file outside the root directory may be there from the start.          *)
(***************************************************************************)
MaxDbCalls == 3

MaxDbTs == 9

DbRuns ==
    <<AppendInput(<<<<Rat(1), Rat(2)>>>>, <<1, 2>>, Cols(<<VarP>>, <<Txt1("a")>>)),
      AppendInput(<<<<Rat(3), Rat(4)>>, <<Rat(4), Rat(5)>>>>, <<1, 2>>,
                  ColsEcs(<<VarP>>, <<Txt3("a", " ", "b")>>, <<Txt1("x"), Txt1("y")>>)),
      AppendInput(<<<<Rat(5), Rat(6)>>>>, <<1, 2>>, Cols(<<VarP>>, <<Txt3("a", "-", "b")>>)),
      AppendInput(<<<<Rat(1), Rat(2)>>, <<Rat(7), Rat(8)>>>>, <<1, 2>>,
                  Cols(<<VarP, VarPC>>, <<Txt1("a")>>)),
      AppendInput(<<<<Rat(1), Rat(2)>>, <<Rat(2), Rat(3)>>>>, <<1, 2>>,
                  ColsEcs(<<<<"C", "O">>>>, <<Txt1("a")>>, <<Txt1("x"), Txt1("y")>>))>>

Str(v) == [str |-> TRUE, values |-> <<v>>]

DbFilters ==
    {<<>>,
     [scenario |-> Str(Txt1("a"))],
     [scenario |-> Str(Txt3("a", " ", "b"))],
     [scenario |-> Str(Txt3("a", "-", "b"))],
     [variable |-> Str(VarP)],
     [variable |-> [str |-> FALSE, values |-> <<VarPC, <<"C", "O">>>>]],
     [variable |-> Str(DotDot)],
     [scenario |-> Str(DotDot)],
     [junk |-> Str(Txt1("x"))]}

OutsideFile == <<<<"o">>, <<"P">>, <<"a">>, <<"f">>>>

InitDb ==
    \E i \in 1..Len(DbRuns), j \in 1..Len(DbRuns),
       d \in {NoDisk, OutsideFile :> JunkFile} :
        \E cs \in {IF i = j THEN <<DbRuns[i]>> ELSE <<DbRuns[i], DbRuns[j]>>} :
            /\ i <= j
            /\ runs = Constructed(cs).runs
            /\ lists = Constructed(cs).lists
            /\ tss = Constructed(cs).tss
            /\ last = Constructed(cs).last
            /\ disk = d

DbSave == \E c \in RunIds : StepWithin(save(c), MaxDbCalls, MaxRuns, MaxLists, MaxDbTs)

DbLoad == \E filters \in DbFilters : StepWithin(load(filters), MaxDbCalls, MaxRuns, MaxLists, MaxDbTs)

DbDelete == \E filters \in DbFilters : StepWithin(delete(filters), MaxDbCalls, MaxRuns, MaxLists, MaxDbTs)

NextDb ==
    \/ DbSave
    \/ DbLoad
    \/ DbDelete

SpecDb == InitDb /\ [][NextDb]_vars

(***************************************************************************)
(* Views of the state the properties read.                                 *)
(***************************************************************************)
(* the series of container c in the heap <<r, l, t>> *)
SeriesIn(r, l, t, c) == [i \in 1..Len(l[r[c].list]) |-> t[l[r[c].list][i]]]

MetaIn(r, l, t, c) ==
    [i \in 1..Len(l[r[c].list]) |-> t[l[r[c].list][i]].meta]

LengthsAgree(c) ==
    \A i \in 1..Len(ListOf(c)) : TsLen(SeriesOf(c)[i]) = Len(runs[c].time)

(***************************************************************************)
(* C1: in every reachable state every series held by a container has as   *)
(* many values as the container's time index has points.  Stated here for *)
(* the states reached by calls that all returned normally.                 *)
(***************************************************************************)
C1_SeriesMatchTimeIndex ==
    ~last.failed => \A c \in RunIds : LengthsAgree(c)

(***************************************************************************)
(* C2: after r = c.filter(...) or r = c.append(d), both with               *)
(* inplace=False, a following r.set_meta(v, k) changes no metadata value  *)
(* of any series of c or d.                                                *)
(***************************************************************************)
C2_NonInplaceResultIndependent ==
    [][(/\ last.op \in {"filter", "append"}
        /\ ~last.inplace
        /\ ~last.raised
        /\ last.returned # 0
        /\ last'.op = "set_meta"
        /\ last'.n = last.n + 1
        /\ last'.self = last.returned)
       => \A c \in {last.self, last.other} \ {0} :
             MetaIn(runs', lists', tss', c) = MetaIn(runs, lists, tss, c)]_vars

(***************************************************************************)
(* C4: filter(keep=False, ...) raises whenever at least one series fails  *)
(* the metadata predicates and at least one time point fails the temporal *)
(* predicates, and the rejected call changes nothing, also with           *)
(* inplace=True.                                                           *)
(***************************************************************************)
BothAxesRestricted(c, f) ==
    LET af == ApplyFilters(SeriesOf(c), runs[c].time, runs[c].sep, f)
    IN  Count(af.keep_meta, FALSE) > 0 /\ Count(af.keep_ts, FALSE) > 0

IsPartition(a, b, all) ==
    \E m \in [1..Len(all) -> BOOLEAN] :
        a = Pick(all, m) /\ b = Pick(all, [i \in 1..Len(all) |-> ~m[i]])

C3_KeepAndDropPartition ==
    [][(/\ last.op = "filter" /\ last.keep /\ ~last.inplace /\ ~last.raised
        /\ last'.op = "filter" /\ ~last'.keep /\ ~last'.inplace /\ ~last'.raised
        /\ last'.n = last.n + 1
        /\ last'.self = last.self
        /\ last'.filt = last.filt
        /\ ~last.filt.year.given)
       => /\ IsPartition(lists'[runs'[last.returned].list],
                         lists'[runs'[last'.returned].list],
                         lists'[runs'[last.self].list])
          /\ SeriesIn(runs', lists', tss', last.self)
                = SeriesIn(runs, lists, tss, last.self)]_vars

(* c, c.filter(p) with every series and c.filter(keep=False, p) empty *)
C3_Witness ==
    /\ last.op = "filter" /\ ~last.keep /\ ~last.inplace /\ ~last.raised
    /\ last.filt.meta # <<>>
    /\ last.self = 1 /\ last.returned = 3
    /\ ListOf(2) = ListOf(1)
    /\ ListOf(3) = <<>>
    /\ Len(ListOf(1)) > 1

(***************************************************************************)
(* C5: the predicates on different keys are ANDed, the values given for   *)
(* one key are ORed, and a temporal predicate narrows the time axis       *)
(* without removing a series.                                              *)
(***************************************************************************)
Matches(ts, f) ==
    \A k \in DOMAIN f.meta :
        \E pat \in f.meta[k] :
            Glob(pat, IF k \in DOMAIN ts.meta THEN ts.meta[k] ELSE <<>>)

InYears(times, f) ==
    [j \in 1..Len(times) |-> f.year.given => times[j] \in f.year.vals]

C5_AndAcrossOrWithin ==
    [][(/\ last'.op = "filter" /\ last'.keep /\ ~last'.raised
        /\ last'.n = last.n + 1
        /\ ~last'.filt.level.given)
       => LET f == last'.filt
              before == SeriesIn(runs, lists, tss, last'.self)
              after == SeriesIn(runs', lists', tss', last'.res)
              kept == Pick(before, [i \in 1..Len(before) |-> Matches(before[i], f)])
              years == InYears(runs[last'.self].time, f)
          IN  /\ Len(after) = Len(kept)
              /\ \A i \in 1..Len(kept) :
                    /\ after[i].meta = kept[i].meta
                    /\ after[i].vals = Pick(kept[i].vals, years)
              /\ runs'[last'.res].time = Pick(runs[last'.self].time, years)]_vars

C5_Witness ==
    /\ last.op = "filter" /\ last.keep /\ ~last.inplace /\ ~last.raised
    /\ DOMAIN last.filt.meta = {"variable", "scenario"}
    /\ Len(ListOf(last.returned)) = 1
    /\ Len(ListOf(last.self)) = 3

(***************************************************************************)
(* C6: filter never fails because its result is empty: not for a          *)
(* predicate on a required metadata key that matches no series, also on   *)
(* an empty container returned by an earlier filter.                       *)
(***************************************************************************)
C6_EmptyResultNeverFails ==
    [][(/\ last'.op = "filter" /\ last'.keep
        /\ last'.n = last.n + 1
        /\ last'.filt = MetaFilter("scenario", {Txt1("z")})
        /\ Len(runs[last'.self].time) > 0)
       => /\ ~last'.raised
          /\ lists'[runs'[last'.res].list] = <<>>]_vars

(***************************************************************************)
(* C7: level=N keeps the variables with exactly N separators, "N-" those  *)
(* with at most N, "N+" those with at least N, counted with the            *)
(* container's separator; filter(level=L) gives what                       *)
(* filter(variable="*", level=L) gives; any other level string raises.    *)
(* Stated of the containers that hold series and time points.              *)
(***************************************************************************)
AtLevel(ts, level, sep) ==
    LET depth == CountSep(ts.meta.variable, sep)
    IN  IF ~level.str THEN depth = level.n
        ELSE IF level.suf = "-" THEN depth <= level.n
        ELSE depth >= level.n

C7_LevelSemantics ==
    [][(/\ last'.op = "filter" /\ last'.keep
        /\ last'.n = last.n + 1
        /\ last'.filt \in {LevelFilter(l) : l \in Levels}
        /\ ListOf(last'.self) # <<>>
        /\ runs[last'.self].time # <<>>)
       => LET f == last'.filt
              c == last'.self
              before == SeriesIn(runs, lists, tss, c)
              after == SeriesIn(runs', lists', tss', last'.res)
              star == Collect(Filter(c, TRUE, last'.inplace,
                                     Both(MetaFilter("variable", {<<"*">>}), f)))
          IN  /\ last'.raised = (f.level.str /\ f.level.suf \notin {"-", "+"})
              /\ ~last'.raised =>
                    after = Pick(before, [i \in 1..Len(before) |->
                                            AtLevel(before[i], f.level, runs[c].sep)])
              /\ star.runs = runs' /\ star.lists = lists' /\ star.tss = tss'
              /\ star.last.raised = last'.raised]_vars

(* with the slash as separator, level=1 keeps the one variable with one *)
C7_Witness ==
    /\ last.op = "filter" /\ last.keep /\ ~last.inplace /\ ~last.raised
    /\ last.filt = LevelFilter(IntLevel(1))
    /\ runs[last.self].sep = "/"
    /\ Len(ListOf(last.self)) = 3
    /\ Len(ListOf(last.returned)) = 1

(***************************************************************************)
(* The inputs of an append, as a step sees them: the series of the two    *)
(* containers before the call, and the metadata table over the union of   *)
(* their keys.                                                             *)
(***************************************************************************)
InputSeries(a, b) ==
    SeriesIn(runs, lists, tss, a) \o SeriesIn(runs, lists, tss, b)

(* the value the series contributes at time t: its own, or NaN *)
Contribution(ts, t) ==
    IF \E i \in 1..Len(ts.time) : ts.time[i] = t
    THEN ts.vals[CHOOSE i \in 1..Len(ts.time) : ts.time[i] = t]
    ELSE NaN

(* t lists the time points of a and of b, each once, in increasing order *)
IsUnionTimes(t, a, b) ==
    /\ Range(t) = Range(runs[a].time) \cup Range(runs[b].time)
    /\ \A i, j \in 1..Len(t) : i < j => t[i] < t[j]

RowOver(attrs, ts) ==
    [k \in attrs |-> IF k \in DOMAIN ts.meta THEN ts.meta[k] ELSE NaNMeta]

(***************************************************************************)
(* C8: the time index of the result of append is the sorted union of the  *)
(* inputs' time indexes; every input series contributes its own value at  *)
(* its own time points and NaN at the others: a result series holds, at   *)
(* every time point, the mean of what the inputs with its metadata        *)
(* contribute there, which for a series alone with its metadata is the    *)
(* series itself.                                                          *)
(***************************************************************************)
C8_UnionTimeIndex ==
    [][(/\ last'.op = "append" /\ ~last'.raised
        /\ last'.n = last.n + 1
        /\ last'.policy \in {"warn", "false"})
       => LET a == last'.self
              b == last'.other
              inputs == InputSeries(a, b)
              attrs == MetaAttributes(inputs)
              times == runs'[last'.res].time
              result == SeriesIn(runs', lists', tss', last'.res)
              mine(s) == SelectSeq(inputs, LAMBDA x :
                             RowOver(attrs, x) = RowOver(attrs, s))
          IN  /\ IsUnionTimes(times, a, b)
              /\ \A x \in Range(inputs) : \E s \in Range(result) :
                    RowOver(attrs, s) = RowOver(attrs, x)
              /\ \A s \in Range(result) :
                    /\ mine(s) # <<>>
                    /\ Len(s.vals) = Len(times)
                    /\ \A j \in 1..Len(times) :
                          s.vals[j] = NanMean([k \in 1..Len(mine(s)) |->
                                         Contribution(mine(s)[k], times[j])])]_vars

(* two inputs with different metadata and different time axes appended *)
C8_Witness ==
    /\ last.op = "append" /\ ~last.raised /\ ~last.inplace
    /\ last.policy = "warn"
    /\ runs[last.self].time # runs[last.other].time
    /\ IsUnionTimes(runs[last.res].time, last.self, last.other)
    /\ Len(ListOf(last.res)) = Len(ListOf(last.self)) + Len(ListOf(last.other))
    /\ \E i \in 1..Len(ListOf(last.res)) : \E j \in 1..Len(runs[last.res].time) :
          IsNaN(SeriesOf(last.res)[i].vals[j])

(***************************************************************************)
(* C9: append warns of averaging if and only if two input series share    *)
(* their metadata row and both have a value that is not NaN at one time   *)
(* point.                                                                  *)
(***************************************************************************)
SharedOverlap(inputs) ==
    \E i, j \in 1..Len(inputs) :
        /\ i # j
        /\ RowOver(MetaAttributes(inputs), inputs[i])
              = RowOver(MetaAttributes(inputs), inputs[j])
        /\ \E t \in Range(inputs[i].time) :
              /\ ~IsNaN(Contribution(inputs[i], t))
              /\ ~IsNaN(Contribution(inputs[j], t))

C9_WarnsIffSharedOverlap ==
    [][(/\ last'.op = "append" /\ ~last'.raised
        /\ last'.n = last.n + 1
        /\ last'.policy = "warn")
       => (last'.warnings = 1
              <=> SharedOverlap(InputSeries(last'.self, last'.other)))]_vars

(***************************************************************************)
(* C10: a container appended to an identical copy of itself, default      *)
(* policy: as many series as before, the same metadata, the same values,  *)
(* and exactly one warning.  Stated of the containers whose series differ *)
(* in metadata and hold a value each.                                      *)
(***************************************************************************)
Content(series) ==
    {<<RowOver(MetaAttributes(series), series[i]), series[i].vals>> :
        i \in 1..Len(series)}

C10_AppendToCopy ==
    [][(/\ last.op = "copy"
        /\ last'.op = "append" /\ last'.policy = "warn" /\ ~last'.inplace
        /\ last'.n = last.n + 1
        /\ last'.self = last.self /\ last'.other = last.res
        /\ ~MetaDuplicated(SeriesOf(last.self))
        /\ \A i \in 1..Len(ListOf(last.self)) :
              \E v \in Range(SeriesOf(last.self)[i].vals) : ~IsNaN(v))
       => /\ ~last'.raised
          /\ last'.warnings = 1
          /\ Len(lists'[runs'[last'.res].list]) = Len(ListOf(last.self))
          /\ Content(SeriesIn(runs', lists', tss', last'.res))
                = Content(SeriesOf(last.self))]_vars

(***************************************************************************)
(* C11: when append averages (policy "warn" or falsy, some metadata row   *)
(* shared), every group of input series with one metadata row becomes one *)
(* result series, the mean at each time point of the group's values that  *)
(* are not NaN, NaN where there is none; no two result series share their *)
(* metadata; and the falsy policy gives the result "warn" gives.           *)
(***************************************************************************)
Rows(series) ==
    {RowOver(MetaAttributes(series), series[i]) : i \in 1..Len(series)}

OtherPolicy(policy) == IF policy = "warn" THEN "false" ELSE "warn"

C11_AveragedGroups ==
    [][(/\ last'.op = "append" /\ ~last'.raised
        /\ last'.n = last.n + 1
        /\ last'.policy \in {"warn", "false"})
       => \A inputs \in {InputSeries(last'.self, last'.other)} :
          \A result \in {SeriesIn(runs', lists', tss', last'.res)} :
          \A twin \in {Collect(DfAppend(<<last'.self, last'.other>>,
                                        last'.inplace, OtherPolicy(last'.policy)))} :
          \A attrs \in {MetaAttributes(inputs)} :
          \A group \in {[row \in Rows(inputs) |->
                           SelectSeq(inputs, LAMBDA x : RowOver(attrs, x) = row)]} :
             Cardinality(Rows(inputs)) < Len(inputs)
             => /\ Len(result) = Cardinality(Rows(inputs))
                /\ {RowOver(attrs, result[i]) : i \in 1..Len(result)} = Rows(inputs)
                /\ \A i \in 1..Len(result) :
                   \A mine \in {group[RowOver(attrs, result[i])]} :
                   \A j \in 1..Len(runs'[last'.res].time) :
                      result[i].vals[j] =
                         NanMean([k \in 1..Len(mine) |->
                                    Contribution(mine[k], runs'[last'.res].time[j])])
                /\ twin.runs = runs' /\ twin.lists = lists' /\ twin.tss = tss'
                /\ ~twin.last.raised]_vars

(* a group of two with different values at one point and one value at     *)
(* another, next to a series alone with its metadata                       *)
C11_Witness ==
    /\ last.op = "append" /\ ~last.raised /\ ~last.inplace
    /\ last.policy = "false"
    /\ Len(ListOf(last.self)) + Len(ListOf(last.other)) = 3
    /\ Len(ListOf(last.res)) = 2
    /\ \E i \in 1..2 : SeriesOf(last.res)[i].vals = <<Rat(2), Rat(2)>>

(***************************************************************************)
(* C12: append does not depend on the order of its inputs.  The result of  *)
(* df_append([A, B, C]) has the same time index and the same set of        *)
(* (metadata, values) series as df_append of the three in any other order; *)
(* and when no two of the inputs' series share a metadata row, the chain   *)
(* A.append(B).append(C) gives the time index and the set of               *)
(* df_append([A, B, C]).                                                   *)
(***************************************************************************)
SeriesOfAll(rs) ==
    IF rs = <<>> THEN <<>>
    ELSE SeriesIn(runs, lists, tss, rs[1])
            \o (IF Len(rs) = 1 THEN <<>>
                ELSE SeriesIn(runs, lists, tss, rs[2])
                        \o (IF Len(rs) = 2 THEN <<>>
                            ELSE SeriesIn(runs, lists, tss, rs[3])))

SameAs(post, time, content) ==
    /\ ~post.last.raised
    /\ post.runs[post.last.res].time = time
    /\ Content(SeriesIn(post.runs, post.lists, post.tss, post.last.res)) = content

C12_OrderIndependent ==
    [][/\ (/\ last'.op = "append" /\ ~last'.raised
            /\ last'.n = last.n + 1
            /\ Len(last'.vec) = 3)
           => \A time \in {runs'[last'.res].time} :
              \A content \in {Content(SeriesIn(runs', lists', tss', last'.res))} :
              \A rs \in Orders(Range(last'.vec)) :
                 SameAs(Collect(DfAppend(rs, FALSE, "warn")), time, content)
       /\ (/\ last.op = "append" /\ ~last.raised /\ last.n = 1
            /\ Len(last.vec) = 2
            /\ last'.op = "append" /\ ~last'.raised
            /\ last'.n = 2
            /\ Len(last'.vec) = 2 /\ last'.self = last.res
            /\ last'.other <= 3)
           => \A abc \in {last.vec \o <<last'.other>>} :
              \A inputs \in {SeriesOfAll(abc)} :
                 Cardinality(Rows(inputs)) = Len(inputs)
                 => SameAs(Collect(DfAppend(abc, FALSE, "warn")),
                           runs'[last'.res].time,
                           Content(SeriesIn(runs', lists', tss', last'.res)))]_vars

C12_Witness ==
    /\ last.op = "append" /\ ~last.raised /\ last.n = 2
    /\ Len(last.vec) = 2 /\ last.self = 4 /\ last.other = 3
    /\ Len(runs) = 5
    /\ Len(ListOf(5)) = Len(ListOf(1)) + Len(ListOf(2)) + Len(ListOf(3))
    /\ runs[5].time = <<1, 2, 3>>
    /\ Cardinality(Rows(SeriesOf(5))) = Len(ListOf(5))

C12_WitnessThree ==
    /\ last.op = "append" /\ ~last.raised /\ last.n = 1
    /\ last.vec = <<3, 1, 2>> /\ ~last.inplace
    /\ runs[last.res].time = <<1, 2, 3>>
    /\ Len(ListOf(last.res)) < Len(ListOf(1)) + Len(ListOf(2)) + Len(ListOf(3))

CompleteOverlap(inputs) ==
    \E i, j \in 1..Len(inputs) :
        /\ i # j
        /\ RowOver(MetaAttributes(inputs), inputs[i])
              = RowOver(MetaAttributes(inputs), inputs[j])
        /\ \A k \in MetaAttributes(inputs) :
              RowOver(MetaAttributes(inputs), inputs[i])[k] # NaNMeta
        /\ \E t \in Range(inputs[i].time) :
              /\ ~IsNaN(Contribution(inputs[i], t))
              /\ ~IsNaN(Contribution(inputs[j], t))

NamesOf(series) == [i \in 1..Len(series) |-> series[i].name]

NonDecreasing(names) == \A i, j \in 1..Len(names) : i < j => names[i] <= names[j]

SameContainer(c) ==
    /\ SeriesIn(runs', lists', tss', c) = SeriesIn(runs, lists, tss, c)
    /\ runs'[c].time = runs[c].time

(* what one append call owes its inputs and its result *)
AppendContract ==
    (/\ last'.op = "append" /\ ~last'.raised
        /\ last'.n = last.n + 1)
       => IF last'.inplace
          THEN /\ last'.returned = 0
               /\ last'.other # last'.self => SameContainer(last'.other)
               /\ \A twin \in {DfAppend(<<last'.self, last'.other>>, FALSE,
                                         last'.policy)} :
                     /\ SeriesIn(runs', lists', tss', last'.self)
                          = SeriesIn(twin.runs, twin.lists, twin.tss, twin.last.res)
                     /\ runs'[last'.self].time = twin.runs[twin.last.res].time
          ELSE /\ last'.returned = Len(runs) + 1
               /\ Len(runs') = Len(runs) + 1
               /\ SameContainer(last'.self)
               /\ SameContainer(last'.other)

(***************************************************************************)
(* C16: append with inplace=False returns a new container and leaves every *)
(* input with the series, metadata, values and time index it had; append   *)
(* with inplace=True returns nothing, the first input then holds the       *)
(* appended result (what the call without inplace returns), and the other  *)
(* input is unchanged.                                                     *)
(***************************************************************************)
C16_InplaceContract == [][AppendContract]_vars

(* C16 for the calls under the policies "warn" and falsy only, which never *)
(* hand back the unaveraged series                                         *)
C16_InplaceContractAveraging ==
    [][last'.policy \in {"warn", "false"} => AppendContract]_vars

(* what one set_meta call does, by the length of the value *)
SetMetaByLength ==
    (/\ last'.op = "set_meta"
        /\ last'.n = last.n + 1)
       => \A before \in {MetaIn(runs, lists, tss, last'.self)} :
          \A after \in {MetaIn(runs', lists', tss', last'.self)} :
          \A value \in {last'.vec} :
             IF Len(value) = 1
             THEN /\ ~last'.raised
                  /\ \A i \in 1..Len(after) : after[i][last'.name] = value[1]
             ELSE IF Len(value) = Len(before)
             THEN /\ ~last'.raised
                  /\ \A i \in 1..Len(after) : after[i][last'.name] = value[i]
             ELSE /\ last'.raised
                  /\ after = before

(***************************************************************************)
(* C17: set_meta(value, key) on a container with N series gives every      *)
(* series the one value when value has length 1, gives the i-th series     *)
(* value[i] when it has length N, and for any other length raises and      *)
(* leaves the metadata of every series as it was.                          *)
(***************************************************************************)
C17_SetMetaByLength == [][SetMetaByLength]_vars

(* C17 for the containers whose list holds every series object once *)
C17_SetMetaDistinctSeries ==
    [][(/\ last'.op = "set_meta"
        /\ last'.n = last.n + 1
        /\ \A ids \in {lists[runs[last'.self].list]} :
           \A i, j \in 1..Len(ids) : i # j => ids[i] # ids[j])
       => SetMetaByLength]_vars

(* the metadata table of container c, row by row *)
MetaTable(c) == [i \in 1..Len(ListOf(c)) |-> MetaRow(SeriesOf(c), i)]

TableShape(c) ==
    \A series \in {SeriesOf(c)} :
    \A keys \in {UNION {DOMAIN series[i].meta : i \in 1..Len(series)}} :
    \A table \in {MetaTable(c)} :
       /\ Len(table) = Len(series)
       /\ \A i \in 1..Len(table) :
             /\ DOMAIN table[i] = keys
             /\ \A k \in keys :
                   table[i][k] = IF k \in DOMAIN series[i].meta
                                 THEN series[i].meta[k] ELSE NaNMeta

EveryTableShaped == \A c \in RunIds : TableShape(c)

(***************************************************************************)
(* C18: in every state the metadata table of a container has one row per   *)
(* series, its columns are the union of the series' metadata keys, and a   *)
(* series without a key shows NaN there; after an append every series of   *)
(* the result shows NaN for each key that no input series with its         *)
(* metadata carried.                                                       *)
(***************************************************************************)
C18_MetaTableShape ==
    [][/\ EveryTableShaped'
       /\ (/\ last'.op = "append" /\ ~last'.raised
            /\ last'.n = last.n + 1)
           => \A inputs \in {InputSeries(last'.self, last'.other)} :
              \A result \in {SeriesIn(runs', lists', tss', last'.res)} :
              \A attrs \in {MetaAttributes(inputs)} :
                 \A i \in 1..Len(result) : \A k \in MetaAttributes(result) :
                    (\A x \in 1..Len(inputs) :
                        RowOver(attrs, inputs[x]) = RowOver(attrs, result[i])
                        => k \notin DOMAIN inputs[x].meta)
                    => MetaRow(result, i)[k] = NaNMeta]_vars

C18_Witness ==
    /\ last.op = "append" /\ ~last.raised
    /\ EveryTableShaped
    /\ \E k \in MetaAttributes(SeriesOf(last.res)) :
          /\ k \notin REQUIRED_COLS
          /\ \E i, j \in 1..Len(ListOf(last.res)) :
                /\ MetaTable(last.res)[i][k] = NaNMeta
                /\ k \notin DOMAIN SeriesOf(last.res)[i].meta
                /\ MetaTable(last.res)[j][k] # NaNMeta

StrictlyIncreasing(time) == \A i, j \in 1..Len(time) : i < j => time[i] < time[j]

(***************************************************************************)
(* C19: in every reachable state the time index of every container is      *)
(* strictly increasing, with no time point repeated.                       *)
(***************************************************************************)
C19_TimeIndexStrictlyIncreasing ==
    \A c \in RunIds : StrictlyIncreasing(runs[c].time)

(* C19 for the results of append alone *)
C19_AppendedIndexStrictlyIncreasing ==
    (last.op = "append" /\ ~last.raised) => StrictlyIncreasing(runs[last.res].time)

(* interpolating container self onto its own time index gave res: the same *)
(* time index, the same series with the same metadata and the values the   *)
(* table of self shows, and self as it was                                 *)
OwnAxisContract ==
    \A series \in {SeriesIn(runs, lists, tss, last'.self)} :
    \A result \in {SeriesIn(runs', lists', tss', last'.res)} :
       /\ ~last'.raised
       /\ runs'[last'.res].time = runs[last'.self].time
       /\ Len(result) = Len(series)
       /\ \A i \in 1..Len(series) :
             /\ result[i].meta = series[i].meta
             /\ result[i].vals = series[i].vals
       /\ SameContainer(last'.self)

(***************************************************************************)
(* C20: interpolating a container onto its own time index returns a        *)
(* container with the same time index, the same series and metadata and    *)
(* the same value at every time point, for every extrapolation type, and   *)
(* leaves the original unchanged.  Stated for the containers whose series  *)
(* have one value per time point, which are those that have a table.       *)
(***************************************************************************)
C20_InterpolateOwnAxis ==
    [][(/\ last'.op = "interpolate"
        /\ last'.n = last.n + 1
        /\ last'.vec = runs[last'.self].time
        /\ LengthsAgree(last'.self))
       => OwnAxisContract]_vars

(* C20 for the containers whose series carry the container's time index    *)
C20_InterpolateOwnAxisOwnSeries ==
    [][(/\ last'.op = "interpolate"
        /\ last'.n = last.n + 1
        /\ last'.vec = runs[last'.self].time
        /\ \A i \in 1..Len(ListOf(last'.self)) :
              SeriesOf(last'.self)[i].time = runs[last'.self].time)
       => OwnAxisContract]_vars

(***************************************************************************)
(* C21: the escaping of variable names is reversible, so a container       *)
(* written to a file and read back has the same set of variable names:     *)
(* whenever a file holds what writing container c produces, reading the    *)
(* file succeeds and gives the variable names of c.                        *)
(***************************************************************************)
VariablesOf(series) == {series[i].meta["variable"] : i \in 1..Len(series)}

WrittenFrom(c, f, dimensions) ==
    /\ ~_write_nc(SeriesOf(c), runs[c].time, dimensions).err
    /\ disk[f] = _write_nc(SeriesOf(c), runs[c].time, dimensions).file

C21_RoundTripKeepsVariableNames ==
    \A c \in RunIds, f \in DOMAIN disk, dimensions \in {<<"scenario">>, <<"region">>} :
        WrittenFrom(c, f, dimensions) =>
            /\ ~_read_nc(disk[f]).err
            /\ VariablesOf(_read_nc(disk[f]).series) = VariablesOf(SeriesOf(c))

(***************************************************************************)
(* C30: reading a netCDF file reports a failure to the caller: from_nc     *)
(* either raises or returns a container, it never returns None.            *)
(***************************************************************************)
C30_ReadReturnsContainerOrRaises ==
    last.op = "from_nc" => (last.raised \/ last.res \in RunIds)

(***************************************************************************)
(* C25: arithmetic between a container and a vector is accepted exactly    *)
(* when the vector has as many elements as the container has time steps,   *)
(* any other length raises; an accepted operation returns a new container  *)
(* with the same metadata and leaves the original unchanged.               *)
(***************************************************************************)
VectorContract ==
    (last'.op = "binary_op" /\ last'.n = last.n + 1)
       => /\ last'.raised <=> Len(last'.vec) # Len(runs[last'.self].time)
          /\ ~last'.raised =>
                /\ last'.res = Len(runs) + 1
                /\ MetaIn(runs', lists', tss', last'.res)
                     = MetaIn(runs, lists, tss, last'.self)
                /\ SameContainer(last'.self)

C25_VectorByTimeSteps == [][VectorContract]_vars

(***************************************************************************)
(* C27: run["time"] = values with a vector whose length differs from the   *)
(* length of the container's series raises ValueError and leaves the       *)
(* container unchanged: the same time index, and every series with the     *)
(* time coordinate it had.                                                 *)
(***************************************************************************)
WrongLengthRejected ==
    (/\ last'.op = "set_time" /\ last'.n = last.n + 1
     /\ \E i \in 1..Len(SeriesIn(runs, lists, tss, last'.self)) :
           TsLen(SeriesIn(runs, lists, tss, last'.self)[i]) # Len(last'.vec))
       => /\ last'.raised
          /\ SameContainer(last'.self)

C27_WrongLengthLeavesContainer == [][WrongLengthRejected]_vars

(***************************************************************************)
(* C28: an in-place append that ends in an error, or that hands back the   *)
(* data under the "return" policy, leaves the target container as it was   *)
(* before the call: the same series, the same values, the same time index. *)
(***************************************************************************)
FailedAppendKeepsTarget ==
    (/\ last'.op = "append" /\ last'.n = last.n + 1
     /\ last'.inplace
     /\ last'.raised \/ last'.warning = "return")
       => SameContainer(last'.self)

C28_FailedAppendKeepsTarget == [][FailedAppendKeepsTarget]_vars

(***************************************************************************)
(* C24: convert_unit returns a new container and leaves the original with  *)
(* the units and values it had; the result has as many series as the       *)
(* original, every series the filters select carries the target unit, and  *)
(* every other series keeps its unit and its values.                       *)
(***************************************************************************)
Without(meta, keys) == [k \in DOMAIN meta \ keys |-> meta[k]]

ConvertContract ==
    (last'.op = "convert_unit" /\ last'.n = last.n + 1 /\ ~last'.raised)
       => \A orig \in {SeriesIn(runs, lists, tss, last'.self)} :
          \A result \in {SeriesIn(runs', lists', tss', last'.res)} :
          \A selected \in {ApplyFilters(orig, runs[last'.self].time,
                                        runs[last'.self].sep, last'.filt).keep_meta} :
             /\ last'.res = Len(runs) + 1
             /\ SameContainer(last'.self)
             /\ Len(result) = Len(orig)
             /\ \A i \in 1..Len(orig) :
                   IF selected[i]
                   THEN \E j \in 1..Len(result) :
                           /\ Without(result[j].meta, {"unit", "unit_context"})
                                = Without(orig[i].meta, {"unit", "unit_context"})
                           /\ result[j].meta["unit"] = last'.name
                   ELSE \E j \in 1..Len(result) :
                           /\ Without(result[j].meta, {"unit_context"})
                                = Without(orig[i].meta, {"unit_context"})
                           /\ result[j].vals = orig[i].vals

C24_ConvertUnitKeepsSeries == [][ConvertContract]_vars

(***************************************************************************)
(* What the database holds: the files below the root, and for each the     *)
(* values its series have for a level.                                     *)
(***************************************************************************)
DbFiles(d) == {path \in DOMAIN d : IsPrefix(DbRoot, path) /\ path # DbRoot}

FileValues(d, path, level) ==
    IF d[path].kind # "nc" \/ _read_nc(d[path]).err THEN {}
    ELSE {_read_nc(d[path]).series[i].meta[level] :
             i \in {k \in 1..Len(_read_nc(d[path]).series) :
                       level \in DOMAIN _read_nc(d[path]).series[k].meta}}

(* the values given for a level, as the caller wrote them *)
Given(filters, level) == Range(filters[level].values)

(***************************************************************************)
(* C29: load with the filter value v for a level returns only series whose *)
(* metadata value for that level is v, also when another value sanitises   *)
(* to the same file name.                                                  *)
(***************************************************************************)
C29_LoadReturnsOnlyTheValueAsked ==
    (last.op = "db_load" /\ ~last.raised)
       => \A level \in DOMAIN last.filt :
             \A i \in 1..Len(SeriesOf(last.res)) :
                SeriesOf(last.res)[i].meta[level] \in Given(last.filt, level)

(***************************************************************************)
(* C22: load reads a stored file if and only if, for every level, no       *)
(* filter is given for the level or the file's value for the level is one  *)
(* of the filter values; a filter on a name that is not a level raises and *)
(* loads nothing.                                                          *)
(***************************************************************************)
C22_LoadSelectsByLevelValues ==
    last.op = "db_load"
       => IF DOMAIN last.filt \ Range(DbLevels) # {}
          THEN last.raised /\ last.res = 0
          ELSE LoadFiles(last.filt, disk) \cap DOMAIN disk
                  = {path \in DbFiles(disk) :
                        \A level \in DOMAIN last.filt :
                           FileValues(disk, path, level) \cap Given(last.filt, level) # {}}

(***************************************************************************)
(* C23: delete removes nothing outside the root directory, whatever the    *)
(* filter values; it removes exactly the files of the subtrees whose level *)
(* values match the filters and leaves every other stored file as it is.   *)
(***************************************************************************)
OutsideRootKept ==
    \A path \in DOMAIN disk \ DbFiles(disk) :
       path \in DOMAIN disk' /\ disk'[path] = disk[path]

DeleteContract ==
    (last'.op = "db_delete" /\ last'.n = last.n + 1)
       => /\ OutsideRootKept
          /\ \A path \in DbFiles(disk) :
                IF \A level \in DOMAIN last'.filt :
                      FileValues(disk, path, level) \cap Given(last'.filt, level) # {}
                THEN path \notin DOMAIN disk'
                ELSE path \in DOMAIN disk' /\ disk'[path] = disk[path]

C23_DeleteRemovesExactlyTheMatches == [][DeleteContract]_vars

C23_DeleteKeepsOutsideRoot ==
    [][(last'.op = "db_delete" /\ last'.n = last.n + 1) => OutsideRootKept]_vars

(***************************************************************************)
(* C26: saving never discards what was saved before: when the database     *)
(* holds what save(A) followed by save(B) leave, load() returns every      *)
(* series of A and of B, those with the same metadata averaged; with B the *)
(* same container as A this is what saving A once leaves.                  *)
(***************************************************************************)
Contents(series) ==
    {[meta |-> series[i].meta, time |-> series[i].time, vals |-> series[i].vals] :
        i \in 1..Len(series)}

SavedAfter(c, d) ==
    SaveGroups(SortCoords(Reverse(DbLevels),
                          {[l \in Range(DbLevels) |-> SeriesOf(c)[i].meta[l]] :
                              i \in 1..Len(SeriesOf(c))}),
               SeriesOf(c), runs[c].time, d).disk

C26_SaveKeepsEarlierData ==
    (last.op = "db_load" /\ last.filt = <<>>)
       => \A a \in RunIds \ {last.res}, b \in RunIds \ {last.res} :
             disk = SavedAfter(b, SavedAfter(a, NoDisk))
                => /\ ~last.raised
                   /\ Contents(SeriesOf(last.res))
                        = Contents(RunAppend(<<[series |-> SeriesOf(a), time |-> runs[a].time],
                                               [series |-> SeriesOf(b), time |-> runs[b].time]>>).series)

====
